---- MODULE Spec2Model ----
(***************************************************************************)
(* EnvProof: schema-driven validation of environment variables.           *)
(*                                                                         *)
(* The model follows the TypeScript sources: field schemas and their      *)
(* builder methods (schema/base.ts, the number and JSON variants), the    *)
(* validation engine (validation/engine.ts, with the error constructors), *)
(* and the createEnv / validateEnv entry points.                          *)
(*                                                                         *)
(* JavaScript strings are sequences of one-character strings, so that     *)
(* trimming, number parsing and JSON parsing are computed and not         *)
(* postulated.  Object keys (variable names) are TLA+ strings, because    *)
(* the code only ever concatenates and compares them.  A JavaScript value *)
(* is a record tagged by "kind".                                          *)
(***************************************************************************)
EXTENDS Integers, Sequences, FiniteSets, TLC

VARIABLES
    schema,   \* the caller's schema: the entries of the object literal, in insertion order
    built,    \* number of builder calls made so far on the fields of schema
    call,     \* the last entry-point call: operation, source and options
    result,   \* what that call returned (or threw), as it was at return time
    env,      \* the data object handed out by that call, as it is now
    write,    \* outcome of the caller's write to that object: none, done, rejected
    invoked,  \* the arguments of the calls of options.crossValidate made by that call
    files,    \* the dotenv files of the working directory: path to content
    heap      \* the schema objects the program built, with the objects and arrays they point to

vars == <<schema, built, call, result, env, write, invoked, files, heap>>

----------------------------------------------------------------------------
(* Bounds of the model *)

MaxFields == 2      \* fields in a schema
MaxChain == 2       \* builder calls per schema
MaxText == 4        \* characters in a generated raw value of an array field

----------------------------------------------------------------------------
(* JavaScript values *)

Undefined == [kind |-> "undefined"]
Str(s) == [kind |-> "string", v |-> s]
Num(n) == [kind |-> "number", v |-> n]
\* an array is an object of its own: it carries its own frozen flag
Arr(elems) == [kind |-> "array", v |-> elems, frozen |-> FALSE]

DigitChars == <<"0", "1", "2", "3", "4", "5", "6", "7", "8", "9">>

IsDigit(c) == \E d \in 1..10 : DigitChars[d] = c

DigitVal(c) == (CHOOSE d \in 1..10 : DigitChars[d] = c) - 1

\* the white space of the model's alphabet: space, tab, carriage return and
\* line feed, the last three written as the tokens TAB, CR and LF
WhiteSpace == {" ", "TAB", "CR", "LF"}

\* String.prototype.trim
RECURSIVE TrimLeft(_)
TrimLeft(s) ==
    IF s = <<>> THEN <<>>
    ELSE IF Head(s) \in WhiteSpace THEN TrimLeft(Tail(s)) ELSE s

RECURSIVE TrimRight(_)
TrimRight(s) ==
    IF s = <<>> THEN <<>>
    ELSE IF s[Len(s)] \in WhiteSpace THEN TrimRight(SubSeq(s, 1, Len(s) - 1)) ELSE s

Trim(s) == TrimRight(TrimLeft(s))

AllDigits(s) == s # <<>> /\ \A i \in 1..Len(s) : IsDigit(s[i])

RECURSIVE DigitsValue(_)
DigitsValue(s) ==
    IF s = <<>> THEN 0
    ELSE 10 * DigitsValue(SubSeq(s, 1, Len(s) - 1)) + DigitVal(s[Len(s)])

\* String(n) for a natural number n
RECURSIVE NumToString(_)
NumToString(n) ==
    IF n < 10 THEN <<DigitChars[n + 1]>>
    ELSE NumToString(n \div 10) \o <<DigitChars[(n % 10) + 1]>>

\* Number(text) for a trimmed, non-empty text over the model's alphabet
\* (digits, brackets, letters): a run of digits is that number, anything
\* else is NaN.  No text of the alphabet denotes an infinity.
NumberOf(text) ==
    IF AllDigits(text)
    THEN [isNaN |-> FALSE, isFinite |-> TRUE, v |-> DigitsValue(text)]
    ELSE [isNaN |-> TRUE, isFinite |-> FALSE, v |-> 0]

\* JSON.parse(text) on the same alphabet: a number, or an array of at most
\* one number; every other text is a SyntaxError
JsonParse(text) ==
    IF AllDigits(text) THEN [ok |-> TRUE, value |-> Num(DigitsValue(text))]
    ELSE IF text = <<"[", "]">> THEN [ok |-> TRUE, value |-> Arr(<<>>)]
    ELSE IF /\ Len(text) >= 3
            /\ Head(text) = "["
            /\ text[Len(text)] = "]"
            /\ AllDigits(SubSeq(text, 2, Len(text) - 1))
         THEN [ok |-> TRUE,
               value |-> Arr(<<Num(DigitsValue(SubSeq(text, 2, Len(text) - 1)))>>)]
    ELSE [ok |-> FALSE, value |-> Undefined]

----------------------------------------------------------------------------
(* Messages: a fixed text with at most one interpolated string *)

Msg(text) == [text |-> text, arg |-> <<>>]
MsgWith(text, arg) == [text |-> text, arg |-> arg]

----------------------------------------------------------------------------
(* Coercion *)

CoerceOk(v) == [success |-> TRUE, value |-> v]
CoerceFail(m) == [success |-> FALSE, error |-> m]

coerceNumber(value) ==
    LET trimmed == Trim(value) IN
    IF trimmed = <<>> THEN CoerceFail(Msg("Cannot convert empty string to number"))
    ELSE LET num == NumberOf(trimmed) IN
         IF num.isNaN THEN CoerceFail(MsgWith("Cannot convert \"%\" to number", value))
         ELSE IF ~num.isFinite
              THEN CoerceFail(MsgWith("Value \"%\" is not a finite number", value))
         ELSE CoerceOk(Num(num.v))

coerceJson(value) ==
    LET trimmed == Trim(value) IN
    IF trimmed = <<>> THEN CoerceFail(Msg("Cannot parse empty string as JSON"))
    ELSE LET parsed == JsonParse(trimmed) IN
         IF parsed.ok THEN CoerceOk(parsed.value)
         ELSE CoerceFail(MsgWith("Invalid JSON: %", trimmed))

\* Durations (schema/duration.ts)

Null == [kind |-> "null"]

\* the lower-case letters of the model's alphabet; "H" is its one capital
LetterChars ==
    {"a", "c", "d", "e", "h", "i", "k", "m", "n", "o", "r", "s", "t", "u", "w", "x", "y"}

\* String.prototype.toLowerCase
ToLowerCase(s) == [i \in 1..Len(s) |-> IF s[i] = "H" THEN "h" ELSE s[i]]

\* the key that a sequence of characters spells
RECURSIVE KeyOf(_)
KeyOf(s) == IF s = <<>> THEN "" ELSE Head(s) \o KeyOf(Tail(s))

\* duration unit multipliers, to milliseconds
DURATION_UNITS ==
    [unit \in {"ms"} |-> 1]
    @@ [unit \in {"s", "sec", "second", "seconds"} |-> 1000]
    @@ [unit \in {"m", "min", "minute", "minutes"} |-> 60 * 1000]
    @@ [unit \in {"h", "hr", "hour", "hours"} |-> 60 * 60 * 1000]
    @@ [unit \in {"d", "day", "days"} |-> 24 * 60 * 60 * 1000]
    @@ [unit \in {"w", "week", "weeks"} |-> 7 * 24 * 60 * 60 * 1000]

\* the length of the longest prefix of s made of digits
RECURSIVE DigitPrefix(_)
DigitPrefix(s) ==
    IF s = <<>> \/ ~IsDigit(Head(s)) THEN 0 ELSE 1 + DigitPrefix(Tail(s))

\* parseDuration(value) on the model's alphabet, which has no "." and no
\* sign: a text that String(parseFloat(text)) gives back is that number of
\* milliseconds, and digits, white space and a unit are their product
parseDuration(value) ==
    LET trimmed == ToLowerCase(Trim(value)) IN
    IF AllDigits(trimmed) /\ NumToString(DigitsValue(trimmed)) = trimmed
    THEN Num(DigitsValue(trimmed))
    ELSE LET n == DigitPrefix(trimmed)
             unit == TrimLeft(SubSeq(trimmed, n + 1, Len(trimmed)))
         IN IF \/ n = 0
               \/ unit = <<>>
               \/ \E i \in 1..Len(unit) : unit[i] \notin LetterChars
            THEN Null
            ELSE IF KeyOf(unit) \notin DOMAIN DURATION_UNITS THEN Null
            ELSE Num(DigitsValue(SubSeq(trimmed, 1, n)) * DURATION_UNITS[KeyOf(unit)])

coerceDuration(value) ==
    LET ms == parseDuration(value) IN
    IF ms = Null
    THEN CoerceFail(Msg("Invalid duration format. Use formats like: 100ms, 5s, 30m, 1h, 7d"))
    ELSE IF ms.v < 0 THEN CoerceFail(Msg("Duration must be non-negative"))
    ELSE CoerceOk(ms)

\* def.coerce: the coercion function a schema was constructed with
\* coerceString of string.ts: the value as it is
coerceString(value) == CoerceOk(Str(value))

Coerce(def, value) ==
    IF def.type = "number" THEN coerceNumber(value)
    ELSE IF def.type = "duration" THEN coerceDuration(value)
    ELSE IF def.type = "string" THEN coerceString(value)
    ELSE coerceJson(value)

----------------------------------------------------------------------------
(* Rules *)

Rule(name, message, arg) == [name |-> name, message |-> message, arg |-> arg]

\* a RegExp object: the source is matched as literal text; the flags are a
\* subset of {"g", "y"}; lastIndex is the one field test() writes
RegExp(source, flags) == [source |-> source, flags |-> flags, lastIndex |-> 0]

\* regex.test(value): with the g or y flag the search starts at lastIndex,
\* and lastIndex becomes the end of the match, or 0 when there is none; with
\* y the match must start at lastIndex.  Without these flags the search
\* starts at 0 and lastIndex is not written.
RegExpTest(regex, value) ==
    LET stateful == regex.flags # {}
        start == IF stateful THEN regex.lastIndex ELSE 0
        found == {i \in start..(Len(value) - Len(regex.source)) :
                     /\ "y" \in regex.flags => i = start
                     /\ SubSeq(value, i + 1, i + Len(regex.source)) = regex.source}
        first == CHOOSE i \in found : \A j \in found : i <= j
    IN [matched |-> found # {},
        lastIndex |-> IF ~stateful THEN regex.lastIndex
                      ELSE IF found # {} THEN first + Len(regex.source)
                      ELSE 0]

\* rule.validate(value): the predicate each refinement registers
RuleValidate(rule, value) ==
    CASE rule.name = "min" -> value.v >= rule.arg
      [] rule.name = "pattern" -> RegExpTest(rule.arg, value.v).matched
      [] rule.name = "max" -> value.v <= rule.arg
      [] rule.name = "array" -> value.kind = "array"
      [] rule.name = "object" -> value.kind = "object"
      [] OTHER -> TRUE

----------------------------------------------------------------------------
(* Field schemas *)

\* new NumberSchema() / new JsonSchema() / new DurationSchema(): the
\* BaseSchema constructor
BaseSchema(type) ==
    [type |-> type,
     isOptional |-> FALSE,
     defaultValue |-> Undefined,
     metadata |-> [isSecret |-> FALSE, example |-> Undefined],
     rules |-> <<>>,
     min |-> Undefined,
     max |-> Undefined]

optional(s) == [s EXCEPT !.isOptional = TRUE]

default(s, value) == [s EXCEPT !.isOptional = FALSE, !.defaultValue = value]

secret(s) == [s EXCEPT !.metadata = [s.metadata EXCEPT !.isSecret = TRUE]]

example(s, value) == [s EXCEPT !.metadata = [s.metadata EXCEPT !.example = Str(value)]]

refine(s, name, message, arg) ==
    [s EXCEPT !.rules = Append(s.rules, Rule(name, message, arg))]

min(s, n) ==
    [refine(s, "min", MsgWith("Must be at least %", NumToString(n)), n)
        EXCEPT !.min = Num(n)]

max(s, n) ==
    [refine(s, "max", MsgWith("Must be at most %", NumToString(n)), n)
        EXCEPT !.max = Num(n)]

jsonArray(s) == refine(s, "array", Msg("Must be a JSON array"), 0)

jsonObject(s) == refine(s, "object", Msg("Must be a JSON object"), 0)

\* pattern(regex): the rule closes over the RegExp object it was given; the
\* rule keeps the address of that object
pattern(s, source, regex) ==
    refine(s, "pattern", MsgWith("Must match pattern %", source), regex)

\* getTypeDescription(): the text is kept as its parts, head and range
getTypeDescription(s) ==
    IF s.type = "json" THEN [head |-> "JSON", form |-> "none", lo |-> <<>>, hi |-> <<>>]
    ELSE IF s.type = "duration"
         THEN [head |-> "duration (e.g., 1h, 30m, 5s)", form |-> "none",
               lo |-> <<>>, hi |-> <<>>]
    ELSE IF s.type = "string"
         THEN [head |-> "string", form |-> "none", lo |-> <<>>, hi |-> <<>>]
    ELSE IF s.min # Undefined /\ s.max # Undefined
         THEN [head |-> "number", form |-> "%-%",
               lo |-> NumToString(s.min.v), hi |-> NumToString(s.max.v)]
    ELSE IF s.min # Undefined
         THEN [head |-> "number", form |-> ">= %", lo |-> NumToString(s.min.v), hi |-> <<>>]
    ELSE IF s.max # Undefined
         THEN [head |-> "number", form |-> "<= %", lo |-> <<>>, hi |-> NumToString(s.max.v)]
    ELSE [head |-> "number", form |-> "none", lo |-> <<>>, hi |-> <<>>]

getDefaultExample(s) ==
    IF s.type = "json"
    THEN <<"{", "\"", "k", "e", "y", "\"", ":", "\"", "v", "a", "l", "u", "e", "\"", "}">>
    ELSE IF s.type = "duration" THEN <<"3", "0", "s">>
    ELSE IF s.type = "string"
         THEN <<"y", "o", "u", "r", "_", "v", "a", "l", "u", "e", "_", "h", "e", "r", "e">>
    ELSE IF s.min # Undefined THEN NumToString(s.min.v)
    ELSE <<"3", ".", "1", "4">>

\* metadata.example ?? getDefaultExample()
getExample(s) ==
    IF s.metadata.example # Undefined THEN s.metadata.example.v
    ELSE getDefaultExample(s)

----------------------------------------------------------------------------
(* Validation errors (validation/errors.ts) *)

createMissingError(variable, s) ==
    [variable |-> variable,
     reason |-> "missing",
     message |-> Msg("Required variable is not set"),
     expected |-> getTypeDescription(s),
     received |-> Undefined,
     example |-> Str(getExample(s)),
     isSecret |-> s.metadata.isSecret]

createEmptyError(variable, s) ==
    [variable |-> variable,
     reason |-> "empty",
     message |-> Msg("Variable is set but empty"),
     expected |-> getTypeDescription(s),
     received |-> Undefined,
     example |-> Str(getExample(s)),
     isSecret |-> s.metadata.isSecret]

REDACTED == <<"[", "R", "E", "D", "A", "C", "T", "E", "D", "]">>

createTypeError(variable, s, received, coercionError) ==
    [variable |-> variable,
     reason |-> "invalid_type",
     message |-> coercionError,
     expected |-> getTypeDescription(s),
     received |-> IF s.metadata.isSecret THEN Str(REDACTED) ELSE Str(received),
     example |-> Str(getExample(s)),
     isSecret |-> s.metadata.isSecret]

\* a createValueError that forgets the secret flag
createValueError_Unmasked(variable, s, received, ruleMessage) ==
    [variable |-> variable,
     reason |-> "invalid_value",
     message |-> ruleMessage,
     expected |-> getTypeDescription(s),
     received |-> Str(received),
     example |-> Str(getExample(s)),
     isSecret |-> s.metadata.isSecret]

createValueError(variable, s, received, ruleMessage) ==
    [variable |-> variable,
     reason |-> "invalid_value",
     message |-> ruleMessage,
     expected |-> getTypeDescription(s),
     received |-> IF s.metadata.isSecret THEN Str(REDACTED) ELSE Str(received),
     example |-> Str(getExample(s)),
     isSecret |-> s.metadata.isSecret]

----------------------------------------------------------------------------
(* The validation engine (validation/engine.ts) *)

Resolved(v) == [value |-> v, error |-> Undefined]
Failed(e) == [value |-> Undefined, error |-> e]

\* a rule loop that keeps going and reports the last failing rule
RECURSIVE FirstFailingRule_Last(_, _, _)
FirstFailingRule_Last(rules, value, i) ==
    IF i > Len(rules) THEN 0
    ELSE LET later == FirstFailingRule_Last(rules, value, i + 1) IN
         IF later # 0 THEN later
         ELSE IF ~RuleValidate(rules[i], value) THEN i ELSE 0

\* the loop over def.rules: index of the first rule whose predicate is
\* false, 0 when every rule holds
RECURSIVE FirstFailingRule(_, _, _)
FirstFailingRule(rules, value, i) ==
    IF i > Len(rules) THEN 0
    ELSE IF ~RuleValidate(rules[i], value) THEN i
    ELSE FirstFailingRule(rules, value, i + 1)

\* a validateVariable that evaluates the field's rules against the default
validateVariable_CheckedDefault(name, value, s) ==
    IF value = Undefined \/ value = Str(<<>>)
    THEN IF s.isOptional THEN Resolved(Undefined)
         ELSE IF s.defaultValue # Undefined
         THEN LET failing == FirstFailingRule(s.rules, s.defaultValue, 1) IN
              IF failing # 0
              THEN Failed(createValueError(name, s, <<>>, s.rules[failing].message))
              ELSE Resolved(s.defaultValue)
         ELSE IF value = Undefined THEN Failed(createMissingError(name, s))
         ELSE Failed(createEmptyError(name, s))
    ELSE LET coercionResult == Coerce(s, value.v) IN
         IF ~coercionResult.success
         THEN Failed(createTypeError(name, s, value.v, coercionResult.error))
         ELSE LET failing == FirstFailingRule(s.rules, coercionResult.value, 1) IN
              IF failing # 0
              THEN Failed(createValueError(name, s, value.v, s.rules[failing].message))
              ELSE Resolved(coercionResult.value)

\* a validateVariable that does not tell an empty value from a missing one
validateVariable_EmptyAsMissing(name, value, s) ==
    IF value = Undefined \/ value = Str(<<>>)
    THEN IF s.isOptional THEN Resolved(Undefined)
         ELSE IF s.defaultValue # Undefined THEN Resolved(s.defaultValue)
         ELSE Failed(createMissingError(name, s))
    ELSE LET coercionResult == Coerce(s, value.v) IN
         IF ~coercionResult.success
         THEN Failed(createTypeError(name, s, value.v, coercionResult.error))
         ELSE LET failing == FirstFailingRule(s.rules, coercionResult.value, 1) IN
              IF failing # 0
              THEN Failed(createValueError(name, s, value.v, s.rules[failing].message))
              ELSE Resolved(coercionResult.value)

\* value is Undefined (no such key in the source) or Str(raw)
validateVariable(name, value, s) ==
    IF value = Undefined \/ value = Str(<<>>)
    THEN IF s.isOptional THEN Resolved(Undefined)
         ELSE IF s.defaultValue # Undefined THEN Resolved(s.defaultValue)
         ELSE IF value = Undefined THEN Failed(createMissingError(name, s))
         ELSE Failed(createEmptyError(name, s))
    ELSE LET coercionResult == Coerce(s, value.v) IN
         IF ~coercionResult.success
         THEN Failed(createTypeError(name, s, value.v, coercionResult.error))
         ELSE LET failing == FirstFailingRule(s.rules, coercionResult.value, 1) IN
              IF failing # 0
              THEN Failed(createValueError(name, s, value.v, s.rules[failing].message))
              ELSE Resolved(coercionResult.value)

\* source[key]
Get(source, key) == IF key \in DOMAIN source THEN Str(source[key]) ELSE Undefined

\* an assignment that leaves out a key whose value is undefined
Put_SkipUndefined(data, key, value) ==
    IF value = Undefined THEN data
    ELSE [k \in DOMAIN data \cup {key} |-> IF k = key THEN value ELSE data[k]]

\* data[key] = value
Put(data, key, value) ==
    [k \in DOMAIN data \cup {key} |-> IF k = key THEN value ELSE data[k]]

\* the lookup key of a field
EnvKey(options, key) == IF options.prefix # "" THEN options.prefix \o key ELSE key

\* the key a resolved field is stored under
OutputKey(options, key) == IF options.stripPrefix /\ options.prefix # "" THEN key ELSE key

\* the name an error is reported under
ErrorVariable(options, key) == IF options.stripPrefix THEN key ELSE EnvKey(options, key)

\* the body of validate's loop over Object.entries(schema), from entry i on
RECURSIVE ValidateFrom(_, _, _, _, _, _)
ValidateFrom(entries, source, options, i, errors, data) ==
    IF i > Len(entries)
    THEN IF Len(errors) > 0
         THEN [success |-> FALSE, data |-> Undefined, errors |-> errors]
         ELSE [success |-> TRUE, data |-> [frozen |-> FALSE, props |-> data], errors |-> <<>>]
    ELSE LET key == entries[i].key
             envKey == EnvKey(options, key)
             res == validateVariable(envKey, Get(source, envKey), entries[i].field)
         IN IF res.error # Undefined
            THEN ValidateFrom(entries, source, options, i + 1,
                     Append(errors, [res.error EXCEPT !.variable = ErrorVariable(options, key)]),
                     data)
            ELSE ValidateFrom(entries, source, options, i + 1, errors,
                     Put(data, OutputKey(options, key), res.value))

\* a validate that returns at the first failing field
validate_FailFast(entries, source, options) ==
    LET full == ValidateFrom(entries, source, options, 1, <<>>, <<>>) IN
    IF full.success THEN full ELSE [full EXCEPT !.errors = <<Head(full.errors)>>]

validate(entries, source, options) == ValidateFrom(entries, source, options, 1, <<>>, <<>>)

----------------------------------------------------------------------------
(* Array coercion (schema/array.ts) *)

\* value.split(separator) for a separator of one character: the pieces
\* between the separators, in order; piece is the one being read
RECURSIVE Split(_, _, _)
Split(s, separator, piece) ==
    IF s = <<>> THEN <<piece>>
    ELSE IF Head(s) = separator THEN <<piece>> \o Split(Tail(s), separator, <<>>)
    ELSE Split(Tail(s), separator, Append(piece, Head(s)))

\* the error of coerceArray for the item at index i (counted from 0)
ItemError(i, message) ==
    [text |-> "Invalid item at index %: %", arg |-> NumToString(i), inner |-> message]

\* the loop of coerceArray over the items from index i on (counted from 1):
\* the item is coerced, then the rules of the item schema are run on it
RECURSIVE CoerceItems(_, _, _, _)
CoerceItems(items, itemSchema, i, results) ==
    IF i > Len(items) THEN CoerceOk(Arr(results))
    ELSE LET itemResult == Coerce(itemSchema, items[i]) IN
         IF ~itemResult.success THEN CoerceFail(ItemError(i - 1, itemResult.error))
         ELSE LET failing == FirstFailingRule(itemSchema.rules, itemResult.value, 1) IN
              IF failing # 0
              THEN CoerceFail(ItemError(i - 1, itemSchema.rules[failing].message))
              ELSE CoerceItems(items, itemSchema, i + 1, Append(results, itemResult.value))

\* a coerceArray that keeps the empty pieces
coerceArray_KeepEmpty(value, separatorChar, itemSchema) ==
    LET pieces == Split(value, separatorChar, <<>>)
        items == [n \in 1..Len(pieces) |-> Trim(pieces[n])]
    IN CoerceItems(items, itemSchema, 1, <<>>)

\* coerceArray(value) of an ArraySchema with this separatorChar and this
\* itemSchema: split, trim each piece, drop the empty ones, then the loop
coerceArray(value, separatorChar, itemSchema) ==
    LET pieces == Split(value, separatorChar, <<>>)
        trimmed == [n \in 1..Len(pieces) |-> Trim(pieces[n])]
        items == SelectSeq(trimmed, LAMBDA item : Len(item) > 0)
    IN CoerceItems(items, itemSchema, 1, <<>>)

----------------------------------------------------------------------------

(* Schema objects and what they point to (schema/base.ts and the variants) *)

\* A schema is an object with a field _def; _def is an object of its own
\* that points to a rules array and to a metadata object.  The heap keeps
\* the four kinds of cell apart; an address is an index into its part.
\* The RegExp objects that pattern rules close over are a fifth part.
\* "made" is the program text behind each schema object: the builder calls
\* that lead from the constructor to it, in call order.
EmptyHeap ==
    [objects |-> <<>>, defs |-> <<>>, arrays |-> <<>>, metas |-> <<>>, made |-> <<>>,
     regexps |-> <<>>]

\* a new cell of one part of the heap; its address is the new length
Allocate(h, part, cell) == [h EXCEPT ![part] = Append(@, cell)]

Bool(b) == [kind |-> "boolean", v |-> b]

\* the classes of schema the model builds
SchemaClasses == {"NumberSchema", "StringSchema", "UrlSchema", "ArraySchema", "EnumSchema"}

\* the values passed to e.enum(values)
EnumValues == <<"dev", "prod">>

\* the type each constructor passes to super()
TypeOfClass(proto) ==
    CASE proto = "NumberSchema" -> "number"
      [] proto = "StringSchema" -> "string"
      [] proto = "UrlSchema" -> "url"
      [] proto = "EnumSchema" -> "enum"
      [] OTHER -> "array"

\* the coerce function of a schema; the array's is a closure over the object
\* whose separator and item schema it reads
CoerceOf(proto, this) ==
    [fn |-> TypeOfClass(proto), this |-> IF proto = "ArraySchema" THEN this ELSE 0]

\* an object made by Object.create(prototype): no field of its own is set
\* yet, so that reading one gives undefined
ObjectCreate(proto) ==
    [proto |-> proto,
     def |-> 0,
     isInteger |-> Undefined,
     min |-> Undefined,
     max |-> Undefined,
     allowedProtocols |-> Undefined,
     itemSchema |-> Undefined,
     separatorChar |-> Undefined,
     values |-> Undefined]

\* the field initialisers of a class, run by its constructor
FieldInitialisers(proto, object) ==
    CASE proto = "NumberSchema" ->
            [object EXCEPT !.isInteger = Bool(FALSE)]
      [] proto = "ArraySchema" ->
            [object EXCEPT !.itemSchema = Str(<<"string">>), !.separatorChar = Str(<<",">>)]
      [] proto = "EnumSchema" ->
            [object EXCEPT !.values = Arr(EnumValues)]
      [] OTHER -> object

\* new NumberSchema(), new StringSchema(), new UrlSchema(), new
\* ArraySchema(e.string()), new EnumSchema(values): the BaseSchema
\* constructor, with a new rules array and a new metadata object, then the
\* fields of the class; the enum also stores its values in _def
Construct(h, proto) ==
    LET this == Len(h.objects) + 1
        base == [type |-> TypeOfClass(proto),
                 isOptional |-> FALSE,
                 defaultValue |-> Undefined,
                 metadata |-> Len(h.metas) + 1,
                 rules |-> Len(h.arrays) + 1,
                 coerce |-> CoerceOf(proto, this)]
        def == IF proto = "EnumSchema"
               THEN base @@ [enumValues |-> Arr(EnumValues)]
               ELSE base
        object == [FieldInitialisers(proto, ObjectCreate(proto)) EXCEPT !.def = Len(h.defs) + 1]
    IN [h EXCEPT !.objects = Append(@, object),
                 !.defs = Append(@, def),
                 !.arrays = Append(@, <<>>),
                 !.metas = Append(@, [isSecret |-> FALSE,
                                      description |-> Undefined,
                                      example |-> Undefined])]

\* this._def
DefOf(h, this) == h.defs[h.objects[this].def]

\* BaseSchema.clone(updates): a new object of the receiver's class whose
\* _def is a new object, the spread of this._def and then of updates; the
\* rules array and the metadata object are shared unless updates names them
BaseSchema_clone(h, this, updates) ==
    LET def == DefOf(h, this)
        spread == [k \in DOMAIN def |-> IF k \in DOMAIN updates THEN updates[k] ELSE def[k]]
        cloned == [ObjectCreate(h.objects[this].proto) EXCEPT !.def = Len(h.defs) + 1]
    IN Allocate(Allocate(h, "defs", spread), "objects", cloned)

\* the object a call returned: the last one allocated
Last(h) == Len(h.objects)

\* a class that does not override clone: the fields of the variant are not
\* copied to the clone
clone_NoOverride(h, this, updates) == BaseSchema_clone(h, this, updates)

\* clone(updates) as the receiver's class has it: NumberSchema, UrlSchema,
\* EnumSchema and ArraySchema override it to copy their own fields to the
\* clone, and ArraySchema binds the clone's coerce to the clone
clone(h, this, updates) ==
    LET h1 == BaseSchema_clone(h, this, updates)
        cloned == Last(h1)
        from == h.objects[this]
    IN CASE from.proto = "NumberSchema" ->
              [h1 EXCEPT !.objects[cloned].isInteger = from.isInteger,
                         !.objects[cloned].min = from.min,
                         !.objects[cloned].max = from.max]
         [] from.proto = "UrlSchema" ->
              [h1 EXCEPT !.objects[cloned].allowedProtocols = from.allowedProtocols]
         [] from.proto = "EnumSchema" ->
              [h1 EXCEPT !.objects[cloned].values = from.values]
         [] from.proto = "ArraySchema" ->
              [h1 EXCEPT !.objects[cloned].itemSchema = from.itemSchema,
                         !.objects[cloned].separatorChar = from.separatorChar,
                         !.defs[h1.objects[cloned].def].coerce = CoerceOf("ArraySchema", cloned)]
         [] OTHER -> h1

BaseSchema_optional(h, this) == clone(h, this, [isOptional |-> TRUE])

BaseSchema_default(h, this, value) ==
    clone(h, this, [isOptional |-> FALSE, defaultValue |-> value])

\* clone({metadata: {...this._def.metadata, [field]: value}}): the object
\* literal is a new metadata object
WithMetadata(h, this, field, value) ==
    LET metadata == h.metas[DefOf(h, this).metadata]
        h1 == Allocate(h, "metas", [metadata EXCEPT ![field] = value])
    IN clone(h1, this, [metadata |-> Len(h1.metas)])

BaseSchema_secret(h, this) == WithMetadata(h, this, "isSecret", TRUE)

BaseSchema_description(h, this, text) == WithMetadata(h, this, "description", Str(text))

BaseSchema_example(h, this, value) == WithMetadata(h, this, "example", Str(value))

\* a refine that pushes the rule onto the receiver's rules array
BaseSchema_refine_Push(h, this, rule) ==
    clone([h EXCEPT !.arrays[DefOf(h, this).rules] = Append(@, rule)], this, <<>>)

\* refine(validate, message, name): clone({rules: [...this._def.rules,
\* rule]}); the array literal is a new array
BaseSchema_refine(h, this, rule) ==
    LET h1 == Allocate(h, "arrays", Append(h.arrays[DefOf(h, this).rules], rule))
    IN clone(h1, this, [rules |-> Len(h1.arrays)])

\* const cloned = this.refine(...); cloned.<field> = value; return cloned
RefineAndSet(h, this, rule, field, value) ==
    LET h1 == BaseSchema_refine(h, this, rule)
    IN [h1 EXCEPT !.objects[Last(h1)][field] = value]

NumberSchema_integer(h, this) ==
    RefineAndSet(h, this, Rule("integer", Msg("Must be an integer"), 0),
                 "isInteger", Bool(TRUE))

NumberSchema_min(h, this, n) ==
    RefineAndSet(h, this, Rule("min", MsgWith("Must be at least %", NumToString(n)), n),
                 "min", Num(n))

NumberSchema_max(h, this, n) ==
    RefineAndSet(h, this, Rule("max", MsgWith("Must be at most %", NumToString(n)), n),
                 "max", Num(n))

StringSchema_minLength(h, this, n) ==
    BaseSchema_refine(h, this,
        Rule("minLength", MsgWith("Must be at least % characters", NumToString(n)), n))

ArraySchema_minLength(h, this, n) ==
    BaseSchema_refine(h, this,
        Rule("minLength",
             MsgWith(IF n = 1 THEN "Must have at least % item" ELSE "Must have at least % items",
                     NumToString(n)), n))

ArraySchema_maxLength(h, this, n) ==
    BaseSchema_refine(h, this,
        Rule("maxLength",
             MsgWith(IF n = 1 THEN "Must have at most % item" ELSE "Must have at most % items",
                     NumToString(n)), n))

ArraySchema_nonEmpty(h, this) == ArraySchema_minLength(h, this, 1)

NumberSchema_positive(h, this) == NumberSchema_min(h, this, 1)

NumberSchema_nonNegative(h, this) == NumberSchema_min(h, this, 0)

\* this.integer().min(1).max(65535): each call is made on the schema the
\* call before it returned
NumberSchema_port(h, this) ==
    LET h1 == NumberSchema_integer(h, this)
        h2 == NumberSchema_min(h1, Last(h1), 1)
    IN NumberSchema_max(h2, Last(h2), 65535)

NumberSchema_between(h, this, lo, hi) ==
    LET h1 == NumberSchema_min(h, this, lo)
    IN NumberSchema_max(h1, Last(h1), hi)

\* protocols.join(", ")
JoinProtocols(protocols) ==
    IF Len(protocols) = 1 THEN <<protocols[1]>> ELSE <<protocols[1], ", ", protocols[2]>>

UrlSchema_protocols(h, this, protocols) ==
    RefineAndSet(h, this,
        Rule("protocols", MsgWith("Protocol must be one of: %", JoinProtocols(protocols)), 0),
        "allowedProtocols", Arr(protocols))

\* separator(char): const cloned = this.clone({}); cloned.separatorChar =
\* char; the coerce of the clone is bound to the clone once more
ArraySchema_separator(h, this, char) ==
    LET h1 == clone(h, this, <<>>)
        cloned == Last(h1)
    IN [h1 EXCEPT !.objects[cloned].separatorChar = Str(<<char>>),
                  !.defs[h1.objects[cloned].def].coerce = CoerceOf("ArraySchema", cloned)]

\* NumberSchema.getTypeDescription(): "integer" or "number", then the range
\* read from the fields _min and _max
NumberSchema_getTypeDescription(h, this) ==
    LET object == h.objects[this]
        head == IF object.isInteger = Bool(TRUE) THEN "integer" ELSE "number"
    IN IF object.min # Undefined /\ object.max # Undefined
       THEN [head |-> head, form |-> "%-%",
             lo |-> NumToString(object.min.v), hi |-> NumToString(object.max.v)]
       ELSE IF object.min # Undefined
       THEN [head |-> head, form |-> ">= %", lo |-> NumToString(object.min.v), hi |-> <<>>]
       ELSE IF object.max # Undefined
       THEN [head |-> head, form |-> "<= %", lo |-> <<>>, hi |-> NumToString(object.max.v)]
       ELSE [head |-> head, form |-> "none", lo |-> <<>>, hi |-> <<>>]

\* what a reader of the schema object sees: isOptional, defaultValue,
\* metadata, the rules list and the fields of the variant
View(h, this) ==
    LET def == DefOf(h, this) IN
    [type |-> def.type,
     isOptional |-> def.isOptional,
     defaultValue |-> def.defaultValue,
     metadata |-> h.metas[def.metadata],
     rules |-> h.arrays[def.rules],
     coerce |-> def.coerce,
     enumValues |-> IF "enumValues" \in DOMAIN def THEN def.enumValues ELSE Undefined,
     fields |-> [h.objects[this] EXCEPT !.def = 0]]

----------------------------------------------------------------------------

(* The dotenv loader (dotenv.ts) *)

\* A Record<string, string> is kept as the sequence of its entries, in
\* insertion order, which is the order of Object.keys.

\* Object.prototype.hasOwnProperty.call(record, key)
HasOwn(record, key) == \E i \in 1..Len(record) : record[i].key = key

\* the value of an own key
Own(record, key) == record[CHOOSE i \in 1..Len(record) : record[i].key = key].value

\* record[key] = value
SetEntry(record, key, value) ==
    IF HasOwn(record, key)
    THEN [i \in 1..Len(record) |->
            IF record[i].key = key THEN [key |-> key, value |-> value] ELSE record[i]]
    ELSE Append(record, [key |-> key, value |-> value])

\* Object.assign(target, vars)
RECURSIVE ObjectAssign(_, _)
ObjectAssign(target, record) ==
    IF record = <<>> THEN target
    ELSE ObjectAssign(SetEntry(target, Head(record).key, Head(record).value), Tail(record))

\* content.split(/\r?\n/), with line the text read since the last break
RECURSIVE SplitLines(_, _)
SplitLines(content, line) ==
    IF content = <<>> THEN <<line>>
    ELSE IF Head(content) = "LF" THEN <<line>> \o SplitLines(Tail(content), <<>>)
    ELSE IF Head(content) = "CR" /\ Len(content) >= 2 /\ content[2] = "LF"
         THEN <<line>> \o SplitLines(Tail(Tail(content)), <<>>)
    ELSE SplitLines(Tail(content), Append(line, Head(content)))

\* s.indexOf(c), counted from 1; 0 when c does not occur
IndexOf(s, c) ==
    IF \E i \in 1..Len(s) : s[i] = c
    THEN CHOOSE i \in 1..Len(s) : s[i] = c /\ \A j \in 1..(i - 1) : s[j] # c
    ELSE 0

\* s.indexOf(" #"), counted from 1
IndexOfComment(s) ==
    LET at(i) == s[i] = " " /\ s[i + 1] = "#" IN
    IF \E i \in 1..(Len(s) - 1) : at(i)
    THEN CHOOSE i \in 1..(Len(s) - 1) : at(i) /\ \A j \in 1..(i - 1) : ~at(j)
    ELSE 0

\* s.replace(/\\c/g, to): every backslash followed by c, from the left
RECURSIVE ReplaceEscape(_, _, _)
ReplaceEscape(s, c, to) ==
    IF Len(s) < 2 THEN s
    ELSE IF s[1] = "\\" /\ s[2] = c
         THEN <<to>> \o ReplaceEscape(SubSeq(s, 3, Len(s)), c, to)
    ELSE <<s[1]>> \o ReplaceEscape(Tail(s), c, to)

\* the escape sequences of a double-quoted value, replaced one kind after
\* the other
Unescape(value) ==
    ReplaceEscape(
        ReplaceEscape(
            ReplaceEscape(
                ReplaceEscape(
                    ReplaceEscape(value, "n", "LF"),
                    "r", "CR"),
                "t", "TAB"),
            "\\", "\\"),
        "\"", "\"")

StartsWith(s, c) == s # <<>> /\ s[1] = c

EndsWith(s, c) == s # <<>> /\ s[Len(s)] = c

\* the body of parseDotenv's loop for one line
ParseLine(res, line) ==
    LET trimmed == Trim(line)
        eqIndex == IndexOf(trimmed, "=")
    IN IF trimmed = <<>> \/ StartsWith(trimmed, "#") THEN res
       ELSE IF eqIndex = 0 THEN res
       ELSE LET key == Trim(SubSeq(trimmed, 1, eqIndex - 1))
                raw == Trim(SubSeq(trimmed, eqIndex + 1, Len(trimmed)))
                value ==
                    IF \/ StartsWith(raw, "\"") /\ EndsWith(raw, "\"")
                       \/ StartsWith(raw, "'") /\ EndsWith(raw, "'")
                    THEN LET inner == SubSeq(raw, 2, Len(raw) - 1) IN
                         IF StartsWith(raw, "\"") THEN Unescape(inner) ELSE inner
                    ELSE LET commentIndex == IndexOfComment(raw) IN
                         IF commentIndex # 0
                         THEN Trim(SubSeq(raw, 1, commentIndex - 1))
                         ELSE raw
            IN IF key = <<>> THEN res
               ELSE SetEntry(res, KeyOf(key), value)

RECURSIVE ParseLines(_, _)
ParseLines(res, lines) ==
    IF lines = <<>> THEN res
    ELSE ParseLines(ParseLine(res, Head(lines)), Tail(lines))

parseDotenv(content) == ParseLines(<<>>, SplitLines(content, <<>>))

\* loadDotenv(filePath): fs is the file system that readFileSync reads, and
\* a path it does not have is a file that cannot be read
loadDotenv(filePath, fs) ==
    IF filePath \in DOMAIN fs THEN parseDotenv(fs[filePath]) ELSE <<>>

\* loadDotenvFiles(...paths)
RECURSIVE LoadFrom(_, _, _)
LoadFrom(res, paths, fs) ==
    IF paths = <<>> THEN res
    ELSE LoadFrom(ObjectAssign(res, loadDotenv(Head(paths), fs)), Tail(paths), fs)

loadDotenvFiles(paths, fs) == LoadFrom(<<>>, paths, fs)

\* the names every object literal inherits from Object.prototype, as far as
\* the model's inputs use them
ObjectPrototypeKeys == {"constructor"}

\* String(Object.prototype[name]), the text of a native function
NativeFunctionText(name) == <<"function ", name, "() { [native code] }">>

\* the capital letters of the model's alphabet
CapitalChars == {"A", "B", "D", "H"}

\* [A-Za-z_] and [A-Za-z0-9_]
IsNameStart(c) == c \in LetterChars \cup CapitalChars \cup {"_"}

IsNameChar(c) == IsNameStart(c) \/ IsDigit(c)

\* the length of the longest prefix of s made of name characters
RECURSIVE NamePrefix(_)
NamePrefix(s) ==
    IF s = <<>> \/ ~IsNameChar(Head(s)) THEN 0 ELSE 1 + NamePrefix(Tail(s))

\* a match of /\$\{([A-Za-z_][A-Za-z0-9_]*)\}/ that starts at position i of
\* raw: its length (0 for no match) and the name it captures
ReferenceAt(raw, i) ==
    IF /\ i + 3 <= Len(raw)
       /\ raw[i] = "$"
       /\ raw[i + 1] = "{"
       /\ IsNameStart(raw[i + 2])
    THEN LET n == NamePrefix(SubSeq(raw, i + 2, Len(raw))) IN
         IF i + 2 + n <= Len(raw) /\ raw[i + 2 + n] = "}"
         THEN [len |-> n + 3, name |-> KeyOf(SubSeq(raw, i + 2, i + 1 + n))]
         ELSE [len |-> 0, name |-> ""]
    ELSE [len |-> 0, name |-> ""]

\* a match of the whole pattern /\\?\$\{...\}/ at position i
MatchAt(raw, i) ==
    IF raw[i] = "\\" /\ ReferenceAt(raw, i + 1).len > 0
    THEN [len |-> ReferenceAt(raw, i + 1).len + 1, escaped |-> TRUE,
          name |-> ReferenceAt(raw, i + 1).name]
    ELSE [len |-> ReferenceAt(raw, i).len, escaped |-> FALSE,
          name |-> ReferenceAt(raw, i).name]

\* result[key] !== undefined, result being an object literal
IsDefinedIn(res, key) == HasOwn(res, key) \/ key \in ObjectPrototypeKeys

\* result[key]
ReadFrom(res, key) ==
    IF HasOwn(res, key) THEN Own(res, key) ELSE NativeFunctionText(key)

\* context[varName] ?? ""
ContextValue(context, varName) ==
    IF varName \in DOMAIN context THEN context[varName]
    ELSE IF varName \in ObjectPrototypeKeys THEN NativeFunctionText(varName)
    ELSE <<>>

\* resolveKey(key) and raw.replace(pattern, callback) from position i on.
\* st holds the closure's result and resolving; both operators give back
\* the text they produce and st as they leave it.
RECURSIVE resolveKey(_, _, _, _)
RECURSIVE ReplaceFrom(_, _, _, _, _)
ReplaceFrom(raw, i, batch, context, st) ==
    IF i > Len(raw) THEN [text |-> <<>>, st |-> st]
    ELSE LET m == MatchAt(raw, i) IN
         IF m.len = 0
         THEN LET rest == ReplaceFrom(raw, i + 1, batch, context, st) IN
              [text |-> <<raw[i]>> \o rest.text, st |-> rest.st]
         ELSE IF m.escaped
         THEN LET rest == ReplaceFrom(raw, i + m.len, batch, context, st) IN
              [text |-> SubSeq(raw, i + 1, i + m.len - 1) \o rest.text, st |-> rest.st]
         ELSE IF HasOwn(batch, m.name)
         THEN LET inner == resolveKey(m.name, batch, context, st)
                  rest == ReplaceFrom(raw, i + m.len, batch, context, inner.st)
              IN [text |-> inner.text \o rest.text, st |-> rest.st]
         ELSE LET rest == ReplaceFrom(raw, i + m.len, batch, context, st) IN
              [text |-> ContextValue(context, m.name) \o rest.text, st |-> rest.st]

resolveKey(key, batch, context, st) ==
    IF IsDefinedIn(st.res, key) THEN [text |-> ReadFrom(st.res, key), st |-> st]
    ELSE IF key \in st.resolving THEN [text |-> <<>>, st |-> st]
    ELSE IF ~HasOwn(batch, key) THEN [text |-> <<>>, st |-> st]
    ELSE LET expanded == ReplaceFrom(Own(batch, key), 1, batch, context,
                                     [st EXCEPT !.resolving = @ \cup {key}])
         IN [text |-> expanded.text,
             st |-> [res |-> SetEntry(expanded.st.res, key, expanded.text),
                     resolving |-> expanded.st.resolving \ {key}]]

\* the loop over Object.keys(vars), from entry n on
RECURSIVE ResolveAll(_, _, _, _)
ResolveAll(batch, context, n, st) ==
    IF n > Len(batch) THEN st
    ELSE ResolveAll(batch, context, n + 1, resolveKey(batch[n].key, batch, context, st).st)

\* expandDotenvVars(vars, context), with batch for vars
expandDotenvVars(batch, context) ==
    ResolveAll(batch, context, 1, [res |-> <<>>, resolving |-> {}]).res

----------------------------------------------------------------------------
(* Schema composition (compose.ts) *)

\* A schema is an object here as for Object.assign: its entries are [key,
\* value] in insertion order, the value being the field schema.

\* Object.assign(objects[target], objects[n], objects[n + 1], ...): the
\* objects of a call, of which only the target is written
RECURSIVE AssignFrom(_, _, _)
AssignFrom(objects, target, n) ==
    IF n > Len(objects) THEN objects
    ELSE AssignFrom([objects EXCEPT ![target] = ObjectAssign(@, objects[n])], target, n + 1)

\* a merge in which the first schema that has a key wins
mergeSchemas_FirstWins(schemas) ==
    LET reversed == [n \in 1..Len(schemas) |-> schemas[Len(schemas) + 1 - n]]
        after == AssignFrom(<<<<>>>> \o reversed, 1, 2)
    IN [returned |-> after[1], arguments |-> schemas]

\* mergeSchemas(...schemas): Object.assign({}, ...schemas); what it returns
\* and what it leaves of its arguments
mergeSchemas(schemas) ==
    LET after == AssignFrom(<<<<>>>> \o schemas, 1, 2)
    IN [returned |-> after[1], arguments |-> Tail(after)]

\* extendSchema(baseSchema, extensions): {...baseSchema, ...extensions}
extendSchema(baseSchema, extensions) ==
    [returned |-> ObjectAssign(ObjectAssign(<<>>, baseSchema), extensions),
     arguments |-> <<baseSchema, extensions>>]

\* schema[key] for a key that is in schema: an own entry, or a function
\* inherited from Object.prototype
ReadKey(object, key) ==
    IF HasOwn(object, key) THEN Own(object, key) ELSE [kind |-> "function", name |-> key]

\* the loop of pickSchema: for (const key of keys) if (key in schema)
\* result[key] = schema[key]
RECURSIVE PickFrom(_, _, _)
PickFrom(object, keys, res) ==
    IF keys = <<>> THEN res
    ELSE PickFrom(object, Tail(keys),
                  IF IsDefinedIn(object, Head(keys))
                  THEN SetEntry(res, Head(keys), ReadKey(object, Head(keys)))
                  ELSE res)

pickSchema(object, keys) ==
    [returned |-> PickFrom(object, keys, <<>>), arguments |-> <<object>>]

\* the loop of omitSchema: for (const key of keys) delete result[key]
RECURSIVE DeleteFrom(_, _)
DeleteFrom(res, keys) ==
    IF keys = <<>> THEN res
    ELSE DeleteFrom(SelectSeq(res, LAMBDA entry : entry.key # Head(keys)), Tail(keys))

\* omitSchema(schema, keys): result = {...schema}, then the deletions
omitSchema(object, keys) ==
    [returned |-> DeleteFrom(ObjectAssign(<<>>, object), keys), arguments |-> <<object>>]

----------------------------------------------------------------------------

(* The entry points createEnv and validateEnv *)

\* resolveDotenvPaths(options)
resolveDotenvPaths(options) ==
    IF options.dotenvPath # Undefined /\ options.dotenvPath.kind = "array"
    THEN options.dotenvPath.v
    ELSE IF options.dotenvPath # Undefined /\ options.dotenvPath.kind = "string"
    THEN <<options.dotenvPath.text>>
    ELSE IF options.environment = "" THEN <<".env">>
    ELSE <<".env",
           ".env." \o options.environment,
           ".env.local",
           ".env." \o options.environment \o ".local">>

\* resolveSource(options): source is options.source ?? process.env, and the
\* returned object is Object.assign({}, dotenvVars, source)
resolveSource(source, options, fs) ==
    IF ~options.dotenv THEN source
    ELSE LET dotenvPaths == resolveDotenvPaths(options)
             loaded == loadDotenvFiles(dotenvPaths, fs)
             dotenvVars == IF options.dotenvExpand
                           THEN expandDotenvVars(loaded, source)
                           ELSE loaded
         IN [k \in DOMAIN source \cup {dotenvVars[i].key : i \in 1..Len(dotenvVars)} |->
                IF k \in DOMAIN source THEN source[k] ELSE Own(dotenvVars, k)]


\* a clone that keeps the flag and loses the default
cloneSchemaWithOptional_DropDefault(s, isOptional) ==
    [s EXCEPT !.isOptional = isOptional, !.defaultValue = Undefined]

\* cloneSchemaWithOptional(schema, isOptional): the object it returns
cloneSchemaWithOptional(s, isOptional) == [s EXCEPT !.isOptional = isOptional]

\* a clone function that sets the flag on the object it was given
ArgumentAfterClone_Written(s, isOptional) == [s EXCEPT !.isOptional = isOptional]

\* the object passed to cloneSchemaWithOptional, after the call: the function
\* assigns cloned._def only, and _def is a new object literal
ArgumentAfterClone(s, isOptional) == s

IndexOfKey(entries, key) ==
    IF \E i \in 1..Len(entries) : entries[i].key = key
    THEN CHOOSE i \in 1..Len(entries) : entries[i].key = key
    ELSE 0

\* const modifiedSchema = { ...schema }: a new mapping whose values are the
\* caller's own field objects.  cloned is the set of entries of modified
\* that no longer refer to an object of the caller.
RulesState(entries) == [caller |-> entries, modified |-> entries, cloned |-> {}]

\* modifiedSchema[key] = cloneSchemaWithOptional(fieldSchema, isOptional)
ReplaceByClone(st, i, isOptional) ==
    [caller |-> IF i \in st.cloned THEN st.caller
                ELSE [st.caller EXCEPT ![i].field = ArgumentAfterClone(@, isOptional)],
     modified |-> [st.modified EXCEPT ![i].field = cloneSchemaWithOptional(@, isOptional)],
     cloned |-> st.cloned \cup {i}]

\* the loop over requireInProduction
RECURSIVE RequireAll(_, _, _)
RequireAll(st, keys, n) ==
    IF n > Len(keys) THEN st
    ELSE LET i == IndexOfKey(st.modified, keys[n]) IN
         IF i # 0 /\ st.modified[i].field.isOptional
         THEN RequireAll(ReplaceByClone(st, i, FALSE), keys, n + 1)
         ELSE RequireAll(st, keys, n + 1)

\* the loop over optionalInDevelopment
RECURSIVE RelaxAll(_, _, _)
RelaxAll(st, keys, n) ==
    IF n > Len(keys) THEN st
    ELSE LET i == IndexOfKey(st.modified, keys[n]) IN
         IF i # 0
         THEN RelaxAll(ReplaceByClone(st, i, TRUE), keys, n + 1)
         ELSE RelaxAll(st, keys, n + 1)

\* applyEnvironmentRules(schema, options), with the caller's schema as the
\* call leaves it (caller) next to the schema it returns (modified)
EnvironmentRulesRun(entries, options) ==
    IF options.environment = "" THEN RulesState(entries)
    ELSE LET isProduction == options.environment = "production"
             isDevelopment == options.environment \in {"development", "dev"}
             needsModification ==
                 \/ isProduction /\ Len(options.requireInProduction) > 0
                 \/ isDevelopment /\ Len(options.optionalInDevelopment) > 0
         IN IF ~needsModification THEN RulesState(entries)
            ELSE LET required == IF isProduction
                                 THEN RequireAll(RulesState(entries),
                                                 options.requireInProduction, 1)
                                 ELSE RulesState(entries)
                 IN IF isDevelopment
                    THEN RelaxAll(required, options.optionalInDevelopment, 1)
                    ELSE required

applyEnvironmentRules(entries, options) == EnvironmentRulesRun(entries, options).modified

\* Object.freeze(object): the object itself, not the objects it refers to
ObjectFreeze(object) == [object EXCEPT !.frozen = TRUE]

\* a string that the code passes on without looking into it
Text(t) == [kind |-> "string", text |-> t]

\* what a crossValidate function may return: a message (a string), an issue
\* object {message, variable?}, or an array of these
Issue(message, variable) == [kind |-> "object", message |-> message, variable |-> variable]

\* createCrossFieldError(message, variable = "_schema")
createCrossFieldError(message, variable) ==
    [variable |-> IF variable = Undefined THEN "_schema" ELSE variable.text,
     reason |-> "cross_field",
     message |-> Msg(message),
     expected |-> Undefined,
     received |-> Undefined,
     example |-> Undefined,
     isSecret |-> FALSE]

\* a normalisation that reports every issue under the default name
normalizeCrossFieldIssue_Unnamed(issue) ==
    createCrossFieldError(IF issue.kind = "string" THEN issue.text ELSE issue.message,
                          Undefined)

normalizeCrossFieldIssue(issue) ==
    IF issue.kind = "string"
    THEN createCrossFieldError(issue.text, Undefined)
    ELSE createCrossFieldError(issue.message,
                               IF issue.variable = Undefined THEN Text("_schema")
                               ELSE issue.variable)

\* data[key], undefined for a key the object does not have
Prop(data, key) == IF key \in DOMAIN data.props THEN data.props[key] ELSE Undefined

\* validator(result.data): the crossValidate functions of the model
CallValidator(validator, data) ==
    CASE validator.body = "nothing" -> Undefined
      [] validator.body = "message" -> Text("limits disagree")
      [] validator.body = "issue" -> Issue("must match", Text("LIMIT"))
      [] validator.body = "unnamed" -> Issue("must match", Undefined)
      [] validator.body = "empty" -> Arr(<<>>)
      [] validator.body = "list" ->
             Arr(<<Issue("must match", Undefined), Text("limits disagree"),
                   Issue("too low", Text("PORT"))>>)
      [] validator.body = "compare" ->
             IF Prop(data, "PORT") # Prop(data, "CONFIG")
             THEN Issue("must match", Text("CONFIG"))
             ELSE Undefined

\* rawIssues.map(normalizeCrossFieldIssue)
MapIssues(rawIssues) == [j \in 1..Len(rawIssues) |-> normalizeCrossFieldIssue(rawIssues[j])]

\* a cross-field step that calls the validator once to test its result
\* and once more to read the issues
CrossFieldRun_Twice(res, validator) ==
    IF ~res.success \/ res.data = Undefined \/ validator = Undefined
    THEN [result |-> res, calls |-> <<>>]
    ELSE LET validationResult == CallValidator(validator, res.data) IN
         IF validationResult = Undefined
         THEN [result |-> res, calls |-> <<res.data>>]
         ELSE LET rawIssues == IF validationResult.kind = "array"
                               THEN validationResult.v
                               ELSE <<validationResult>>
              IN IF Len(rawIssues) = 0
                 THEN [result |-> res, calls |-> <<res.data, res.data>>]
                 ELSE [result |-> [success |-> FALSE, data |-> Undefined,
                                   errors |-> MapIssues(rawIssues)],
                       calls |-> <<res.data, res.data>>]

\* applyCrossFieldValidation(result, validator): the result it returns and
\* the arguments of the calls of validator it made
CrossFieldRun(res, validator) ==
    IF ~res.success \/ res.data = Undefined \/ validator = Undefined
    THEN [result |-> res, calls |-> <<>>]
    ELSE LET validationResult == CallValidator(validator, res.data) IN
         IF validationResult = Undefined
         THEN [result |-> res, calls |-> <<res.data>>]
         ELSE LET rawIssues == IF validationResult.kind = "array"
                               THEN validationResult.v
                               ELSE <<validationResult>>
                  errors == MapIssues(rawIssues)
              IN IF Len(errors) = 0
                 THEN [result |-> res, calls |-> <<res.data>>]
                 ELSE [result |-> [success |-> FALSE, data |-> Undefined, errors |-> errors],
                       calls |-> <<res.data>>]

applyCrossFieldValidation(res, validator) == CrossFieldRun(res, validator).result

\* handleValidationFailure never returns: it exits the process or throws
\* EnvValidationError(errors)
handleValidationFailure(errors, options) ==
    IF options.onError = "exit"
    THEN [how |-> "exit", success |-> FALSE, data |-> Undefined, errors |-> errors]
    ELSE [how |-> "throw", success |-> FALSE, data |-> Undefined, errors |-> errors]

\* a createEnv that hands every failure to handleValidationFailure
createEnv_NoReturn(entries, source, options) ==
    LET modifiedSchema == applyEnvironmentRules(entries, options)
        baseResult == validate(modifiedSchema, source, options)
        res == applyCrossFieldValidation(baseResult, options.crossValidate)
    IN IF ~res.success
       THEN handleValidationFailure(res.errors, options)
       ELSE LET frozenData == ObjectFreeze(res.data) IN
            IF options.onError = "return"
            THEN [how |-> "result", success |-> TRUE, data |-> frozenData, errors |-> <<>>]
            ELSE [how |-> "data", success |-> TRUE, data |-> frozenData, errors |-> <<>>]

\* what createEnv does: return a result or the data, throw, or exit.
\* source is what resolveSource returns when options.dotenv is not set.
createEnv(entries, source, options) ==
    LET modifiedSchema == applyEnvironmentRules(entries, options)
        baseResult == validate(modifiedSchema, source, options)
        res == applyCrossFieldValidation(baseResult, options.crossValidate)
    IN IF ~res.success
       THEN IF options.onError = "return" THEN [how |-> "result"] @@ res
            ELSE handleValidationFailure(res.errors, options)
       ELSE LET frozenData == ObjectFreeze(res.data) IN
            IF options.onError = "return"
            THEN [how |-> "result", success |-> TRUE, data |-> frozenData, errors |-> <<>>]
            ELSE [how |-> "data", success |-> TRUE, data |-> frozenData, errors |-> <<>>]

validateEnv(entries, source, options) ==
    LET modifiedSchema == applyEnvironmentRules(entries, options)
        baseResult == validate(modifiedSchema, source, options)
    IN applyCrossFieldValidation(baseResult, options.crossValidate)

\* the calls of options.crossValidate an entry point makes
crossValidateCalls(entries, source, options) ==
    LET modifiedSchema == applyEnvironmentRules(entries, options)
        baseResult == validate(modifiedSchema, source, options)
    IN CrossFieldRun(baseResult, options.crossValidate).calls

----------------------------------------------------------------------------
(* The inputs the model draws *)

\* the schema literal of the model: PORT: e.number(), CONFIG: e.json(),
\* LIMIT: e.number(), ... in this order
KeyNames == <<"PORT", "CONFIG", "LIMIT">>

TypeOfKey(key) == IF key = "CONFIG" THEN "json" ELSE "number"

ExtraKey == "EXTRA_FLAG"

Prefix == "APP_"

\* raw values of a schema field: empty, a number, a JSON array
RawValues == {<<>>, <<"8">>, <<"[", "8", "]">>}

DefaultOf(type) == IF type = "number" THEN Num(3000) ELSE Arr(<<Num(1)>>)

ExampleText == <<"9">>

\* the arguments the model passes to min() and max()
MinArgs == {10}

MaxArgs == {5}

\* the options of a call; "" and <<>> stand for an option left unset
Options(prefix, stripPrefix, strict, strictIgnore) ==
    [prefix |-> prefix, stripPrefix |-> stripPrefix,
     strict |-> strict, strictIgnore |-> strictIgnore,
     environment |-> "", requireInProduction |-> <<>>, optionalInDevelopment |-> <<>>,
     onError |-> "throw", crossValidate |-> Undefined]

PlainOptions == Options("", FALSE, FALSE, {})

\* prefix and stripPrefix
ValidateOptions ==
    {PlainOptions,
     Options(Prefix, FALSE, FALSE, {}),
     Options(Prefix, TRUE, FALSE, {})}

\* strict and strictIgnore
StrictOptions ==
    {Options("", FALSE, TRUE, {}),
     Options("", FALSE, TRUE, {ExtraKey})}

\* environment, requireInProduction, optionalInDevelopment
EnvironmentOptions ==
    {[PlainOptions EXCEPT !.environment = e, !.requireInProduction = r,
                          !.optionalInDevelopment = o] :
        <<e, r, o>> \in {<<"", <<>>, <<>>>>,
                         <<"production", <<KeyNames[1]>>, <<>>>>,
                         <<"development", <<>>, <<KeyNames[1]>>>>,
                         <<"production", <<>>, <<KeyNames[1]>>>>}}

CreateEnvOptions ==
    {[o EXCEPT !.onError = h] : o \in EnvironmentOptions, h \in {"throw", "return", "exit"}}

SchemaKeys(entries) == {entries[i].key : i \in 1..Len(entries)}

\* every source over the lookup keys of the schema
FieldSources(entries, options) ==
    LET lookup == {EnvKey(options, k) : k \in SchemaKeys(entries)}
    IN UNION {[S -> RawValues] : S \in SUBSET lookup}

\* sources over the lookup keys of the schema whose values are drawn from raws
SourcesOver(entries, options, raws) ==
    LET lookup == {EnvKey(options, k) : k \in SchemaKeys(entries)}
    IN UNION {[S -> raws] : S \in SUBSET lookup}

\* environment rules: the two lists name schema keys and a name that is no
\* schema key, under production, development, dev, another name and no name
RuleOptions ==
    {[PlainOptions EXCEPT !.environment = e, !.requireInProduction = r,
                          !.optionalInDevelopment = o] :
        <<e, r, o>> \in {<<"production", <<KeyNames[1]>>, <<>>>>,
                         <<"production", <<ExtraKey, KeyNames[2]>>, <<KeyNames[1]>>>>,
                         <<"production", <<>>, <<KeyNames[1]>>>>,
                         <<"development", <<KeyNames[1]>>, <<KeyNames[1]>>>>,
                         <<"dev", <<>>, <<KeyNames[2], ExtraKey>>>>,
                         <<"staging", <<KeyNames[1]>>, <<KeyNames[1]>>>>,
                         <<"", <<KeyNames[1]>>, <<KeyNames[1]>>>>}}

\* the same rules passed to createEnv
CreateEnvRuleOptions ==
    {[o EXCEPT !.onError = "return"] :
        o \in {p \in RuleOptions : Len(p.requireInProduction) + Len(p.optionalInDevelopment) = 1}}

\* raw values that tell a set field from an unset one
RuleRawValues == {<<>>, <<"8">>}

\* a crossValidate function, named by what its body returns
Validator(body) == [kind |-> "function", body |-> body]

ValidatorBodies == {"nothing", "message", "issue", "unnamed", "empty", "list", "compare"}

\* crossValidate supplied or not
CrossOptions ==
    {PlainOptions}
        \cup {[PlainOptions EXCEPT !.crossValidate = Validator(b)] : b \in ValidatorBodies}

CreateEnvCrossOptions ==
    {[o EXCEPT !.onError = h] : o \in CrossOptions, h \in {"throw", "return", "exit"}}

\* raw values that pass or fail per-field validation
CrossRawValues == {<<"8">>}

\* the dotenv files a working directory may hold
DotenvPaths == {".env", ".env.local", ".env.production"}

\* their contents:
\*   PORT=8 / LIMIT=${PORT}
\*   PORT=9
\*   constructor=1 / CONFIG=[8]
\*   # local / LIMIT = 7 # x
DotenvContents ==
    {<<"P", "O", "R", "T", "=", "8", "LF", "L", "I", "M", "I", "T", "=", "$", "{", "P", "O", "R", "T", "}">>,
     <<"P", "O", "R", "T", "=", "9">>,
     <<"c", "o", "n", "s", "t", "r", "u", "c", "t", "o", "r", "=", "1", "LF", "C", "O", "N", "F", "I", "G", "=", "[", "8", "]">>,
     <<"#", " ", "l", "o", "c", "a", "l", "LF", "L", "I", "M", "I", "T", " ", "=", " ", "7", " ", "#", " ", "x">>}

\* the options of a call that asks for dotenv loading
DotenvOptions(environment, dotenvPath, dotenvExpand) ==
    [dotenv |-> TRUE, dotenvPath |-> dotenvPath, dotenvExpand |-> dotenvExpand]
        @@ [PlainOptions EXCEPT !.environment = environment]

\* no dotenv loading; the default path; the paths of an environment; one
\* path; a list of paths; each without and with expansion
DotenvCallOptions ==
    {[dotenv |-> FALSE, dotenvPath |-> Undefined, dotenvExpand |-> FALSE] @@ PlainOptions}
        \cup {DotenvOptions(o[1], o[2], x) :
                o \in {<<"", Undefined>>,
                       <<"production", Undefined>>,
                       <<"", Text(".env.local")>>,
                       <<"", Arr(<<".env.local", ".env">>)>>},
                x \in BOOLEAN}

\* options.source ?? process.env
DotenvSources ==
    {<<>>,
     [k \in {"PORT"} |-> <<"3">>],
     [k \in {"LIMIT", "CONFIG"} |-> <<"4">>]}

\* the inputs of expandDotenvVars: a batch of at most MaxFields entries
\* with distinct keys, and a context
ExpandKeys == {"A", "B", "constructor"}

\* x, ${A}, ${B}, ${A}x, \${B}, ${D}
ExpandValues ==
    {<<"x">>,
     <<"$", "{", "A", "}">>,
     <<"$", "{", "B", "}">>,
     <<"$", "{", "A", "}", "x">>,
     <<"\\", "$", "{", "B", "}">>,
     <<"$", "{", "D", "}">>}

ExpandBatches ==
    {b \in UNION {[1..n -> [key : ExpandKeys, value : ExpandValues]] : n \in 0..MaxFields} :
        \A i, j \in 1..Len(b) : b[i].key = b[j].key => i = j}

ExpandContexts == {<<>>, [k \in {"A", "D"} |-> <<"c">>]}

\* the same, with or without one key that no field looks up
Sources(entries, options) ==
    FieldSources(entries, options)
        \cup {Put(f, ExtraKey, <<"1">>) : f \in FieldSources(entries, options)}

----------------------------------------------------------------------------
(* The program: a schema is written down, then validated *)

NoCall == [op |-> "none"]

Init ==
    /\ schema = <<>>
    /\ built = 0
    /\ call = NoCall
    /\ result = Undefined
    /\ env = Undefined
    /\ write = "none"
    /\ invoked = <<>>
    /\ files = <<>>
    /\ heap = EmptyHeap

Building == call = NoCall

\* the next entry KEY: e.number() or KEY: e.json() of the schema literal
DefineField ==
    /\ Building
    /\ Len(schema) < MaxFields
    /\ Len(schema) < Len(KeyNames)
    /\ LET key == KeyNames[Len(schema) + 1] IN
       schema' = Append(schema, [key |-> key, field |-> BaseSchema(TypeOfKey(key))])
    /\ UNCHANGED <<built, call, result, env, write, invoked, files, heap>>

\* the entry i becomes the schema a builder method returns for it
Chain(i, new) ==
    /\ Building
    /\ built < MaxChain
    /\ schema' = [schema EXCEPT ![i].field = new]
    /\ built' = built + 1
    /\ UNCHANGED <<call, result, env, write, invoked, files, heap>>

CallOptional(i) == Chain(i, optional(schema[i].field))

CallDefault(i) == Chain(i, default(schema[i].field, DefaultOf(schema[i].field.type)))

CallSecret(i) == Chain(i, secret(schema[i].field))

CallExample(i) == Chain(i, example(schema[i].field, ExampleText))

CallMin(i) ==
    /\ schema[i].field.type = "number"
    /\ \E n \in MinArgs : Chain(i, min(schema[i].field, n))

CallMax(i) ==
    /\ schema[i].field.type = "number"
    /\ \E n \in MaxArgs : Chain(i, max(schema[i].field, n))

CallArray(i) == schema[i].field.type = "json" /\ Chain(i, jsonArray(schema[i].field))

CallObject(i) == schema[i].field.type = "json" /\ Chain(i, jsonObject(schema[i].field))

\* validate(schema, source, options)
Validate(source, options) ==
    /\ Building
    /\ Len(schema) > 0
    /\ call' = [op |-> "validate", source |-> source, options |-> options]
    /\ result' = [how |-> "result"] @@ validate(schema, source, options)
    /\ env' = result'.data
    /\ write' = "none"
    /\ UNCHANGED <<schema, built, invoked, files, heap>>

\* createEnv(schema, {source, ...options})
CreateEnv(source, options) ==
    /\ Building
    /\ Len(schema) > 0
    /\ call' = [op |-> "createEnv", source |-> source, options |-> options]
    /\ result' = createEnv(schema, source, options)
    /\ env' = result'.data
    /\ write' = "none"
    /\ invoked' = crossValidateCalls(schema, source, options)
    /\ schema' = EnvironmentRulesRun(schema, options).caller
    /\ UNCHANGED <<built, files, heap>>

\* validateEnv(schema, {source, ...options})
ValidateEnv(source, options) ==
    /\ Building
    /\ Len(schema) > 0
    /\ call' = [op |-> "validateEnv", source |-> source, options |-> options]
    /\ result' = [how |-> "result"] @@ validateEnv(schema, source, options)
    /\ env' = result'.data
    /\ write' = "none"
    /\ invoked' = crossValidateCalls(schema, source, options)
    /\ schema' = EnvironmentRulesRun(schema, options).caller
    /\ UNCHANGED <<built, files, heap>>

\* the caller still holds the data object as it was returned
Untouched == env # Undefined /\ env = result.data /\ write = "none"

\* data[key] = value, in the caller's (strict mode) module: a TypeError on
\* a frozen object, and the object stays as it is
AssignProperty(key, value) ==
    /\ Untouched
    /\ IF env.frozen
       THEN write' = "rejected" /\ env' = env
       ELSE write' = "done" /\ env' = [env EXCEPT !.props = Put(env.props, key, value)]
    /\ UNCHANGED <<schema, built, call, result, invoked, files, heap>>

\* data[key].push(value) on an array held by the data object
PushElement(key, value) ==
    /\ Untouched
    /\ key \in DOMAIN env.props
    /\ env.props[key].kind = "array"
    /\ IF env.props[key].frozen
       THEN write' = "rejected" /\ env' = env
       ELSE /\ write' = "done"
            /\ env' = [env EXCEPT !.props[key].v = Append(@, value)]
    /\ UNCHANGED <<schema, built, call, result, invoked, files, heap>>

Writes ==
    \/ \E key \in {KeyNames[1], ExtraKey} : AssignProperty(key, Num(0))
    \/ \E key \in SchemaKeys(schema) : PushElement(key, Num(0))

Builders ==
    \/ DefineField
    \/ \E i \in 1..Len(schema) : CallOptional(i)
    \/ \E i \in 1..Len(schema) : CallDefault(i)
    \/ \E i \in 1..Len(schema) : CallSecret(i)
    \/ \E i \in 1..Len(schema) : CallExample(i)
    \/ \E i \in 1..Len(schema) : CallMin(i)
    \/ \E i \in 1..Len(schema) : CallMax(i)
    \/ \E i \in 1..Len(schema) : CallArray(i)
    \/ \E i \in 1..Len(schema) : CallObject(i)

Next ==
    \/ Builders
    \/ /\ Building
       /\ \E options \in ValidateOptions :
             \E source \in FieldSources(schema, options) : Validate(source, options)
    \/ Writes

Spec == Init /\ [][Next]_vars

\* the same program calling validate in strict mode
NextStrict ==
    \/ Builders
    \/ /\ Building
       /\ \E options \in StrictOptions :
             \E source \in Sources(schema, options) : Validate(source, options)
    \/ Writes

SpecStrict == Init /\ [][NextStrict]_vars

\* the same program calling the entry points createEnv and validateEnv
NextEnv ==
    \/ Builders
    \/ /\ Building
       /\ \E options \in CreateEnvOptions :
             \E source \in FieldSources(schema, options) : CreateEnv(source, options)
    \/ /\ Building
       /\ \E options \in EnvironmentOptions :
             \E source \in FieldSources(schema, options) : ValidateEnv(source, options)
    \/ Writes

SpecEnv == Init /\ [][NextEnv]_vars

\* the same program calling the entry points with environment rules
NextRules ==
    \/ Builders
    \/ /\ Building
       /\ \E options \in CreateEnvRuleOptions :
             \E source \in SourcesOver(schema, options, RuleRawValues) :
                CreateEnv(source, options)
    \/ /\ Building
       /\ \E options \in RuleOptions :
             \E source \in SourcesOver(schema, options, RuleRawValues) :
                ValidateEnv(source, options)

SpecRules == Init /\ [][NextRules]_vars

\* the same program calling the entry points with a crossValidate function
NextCross ==
    \/ Builders
    \/ /\ Building
       /\ \E options \in CreateEnvCrossOptions :
             \E source \in SourcesOver(schema, options, CrossRawValues) :
                CreateEnv(source, options)
    \/ /\ Building
       /\ \E options \in CrossOptions :
             \E source \in SourcesOver(schema, options, CrossRawValues) :
                ValidateEnv(source, options)

SpecCross == Init /\ [][NextCross]_vars

\* the schema of duration fields: TIMEOUT: e.duration(), TTL: e.duration(),
\* EXPIRY: e.duration(), in this order
DurationKeyNames == <<"TIMEOUT", "TTL", "EXPIRY">>

\* the arguments the model passes to default() of a duration field: strings
\* and a number of milliseconds
DurationDefaults ==
    {Str(<<"3", "0", "s">>), Str(<<"2", "4", "h">>), Num(5000)}

\* raw values of a duration field: empty, with a unit, with a capital and
\* white space, milliseconds, a leading zero, an unknown unit
DurationRawValues ==
    {<<>>, <<"1", "h">>, <<"2", " ", "H">>, <<"5", "0", "0">>, <<"0", "8">>, <<"5", "x">>}

\* the next entry KEY: e.duration() of the schema literal
DefineDurationField ==
    /\ Building
    /\ Len(schema) < MaxFields
    /\ Len(schema) < Len(DurationKeyNames)
    /\ LET key == DurationKeyNames[Len(schema) + 1] IN
       schema' = Append(schema, [key |-> key, field |-> BaseSchema("duration")])
    /\ UNCHANGED <<built, call, result, env, write, invoked, files, heap>>

CallDurationDefault(i) ==
    /\ schema[i].field.type = "duration"
    /\ \E value \in DurationDefaults : Chain(i, default(schema[i].field, value))

\* a program that writes down a schema of durations and validates it
NextDuration ==
    \/ DefineDurationField
    \/ \E i \in 1..Len(schema) : CallOptional(i)
    \/ \E i \in 1..Len(schema) : CallDurationDefault(i)
    \/ /\ Building
       /\ \E source \in SourcesOver(schema, PlainOptions, DurationRawValues) :
             ValidateEnv(source, PlainOptions)

SpecDuration == Init /\ [][NextDuration]_vars

\* a dotenv file is written before the program starts
WriteFile(path, content) ==
    /\ Building
    /\ path \notin DOMAIN files
    /\ files' = Put(files, path, content)
    /\ UNCHANGED <<schema, built, call, result, env, write, invoked, heap>>

\* validateEnv(schema, {source, dotenv, dotenvPath, dotenvExpand, ...}): the
\* call records the source it was given and the source resolveSource returned
ValidateEnvDotenv(source, options) ==
    /\ Building
    /\ Len(schema) > 0
    /\ LET resolved == resolveSource(source, options, files) IN
       /\ call' = [op |-> "validateEnv", given |-> source, source |-> resolved,
                   options |-> options]
       /\ result' = [how |-> "result"] @@ validateEnv(schema, resolved, options)
       /\ invoked' = crossValidateCalls(schema, resolved, options)
    /\ env' = result'.data
    /\ write' = "none"
    /\ schema' = EnvironmentRulesRun(schema, options).caller
    /\ UNCHANGED <<built, files, heap>>

\* a program that validates a schema against dotenv files
NextDotenv ==
    \/ DefineField
    \/ /\ Building
       /\ \E path \in DotenvPaths, content \in DotenvContents : WriteFile(path, content)
    \/ /\ Building
       /\ \E options \in DotenvCallOptions, source \in DotenvSources :
             ValidateEnvDotenv(source, options)

SpecDotenv == Init /\ [][NextDotenv]_vars

\* expandDotenvVars is given a batch and a context
InitExpand ==
    /\ schema = <<>>
    /\ built = 0
    /\ call \in {[op |-> "input", batch |-> b, context |-> c] :
                    b \in ExpandBatches, c \in ExpandContexts}
    /\ result = Undefined
    /\ env = Undefined
    /\ write = "none"
    /\ invoked = <<>>
    /\ files = <<>>
    /\ heap = EmptyHeap

\* expandDotenvVars(vars, context)
ExpandDotenvVars ==
    /\ call.op = "input"
    /\ call' = [call EXCEPT !.op = "expandDotenvVars"]
    /\ result' = expandDotenvVars(call.batch, call.context)
    /\ UNCHANGED <<schema, built, env, write, invoked, files, heap>>

NextExpand == ExpandDotenvVars

SpecExpand == InitExpand /\ [][NextExpand]_vars

\* a schema of string fields, each with one pattern rule: NAME:
\* e.string().pattern(/a/), e.string().pattern(/a/g), ...
PatternKeyNames == <<"NAME", "CODE", "TAG">>

\* the regular expression literals of these fields
RegExpLiterals ==
    {RegExp(<<"a">>, {}), RegExp(<<"a">>, {"g"}), RegExp(<<"b", "a">>, {"g"}),
     RegExp(<<"a">>, {"y"})}

PatternRawValues == {<<>>, <<"a">>, <<"b", "a">>, <<"a", "b", "a">>}

\* the next entry KEY: e.string().pattern(literal); evaluating the literal
\* makes a new RegExp object
DefinePatternField ==
    /\ Building
    /\ Len(schema) < MaxFields
    /\ Len(schema) < Len(PatternKeyNames)
    /\ \E literal \in RegExpLiterals :
          LET key == PatternKeyNames[Len(schema) + 1]
              h == Allocate(heap, "regexps", literal)
          IN /\ heap' = h
             /\ schema' = Append(schema,
                    [key |-> key,
                     field |-> pattern(BaseSchema("string"), literal.source, Len(h.regexps))])
    /\ UNCHANGED <<built, call, result, env, write, invoked, files>>

\* the schema as a call of validate finds it: each pattern rule tests the
\* RegExp object at its address, in the state that object is in
WithRegExps(entries, h) ==
    [i \in 1..Len(entries) |->
        [entries[i] EXCEPT !.field.rules =
            [n \in 1..Len(@) |->
                IF @[n].name = "pattern" THEN [@[n] EXCEPT !.arg = h.regexps[@] ]
                ELSE @[n]]]]

\* the RegExp objects after a call of validate: validateVariable runs the
\* rule of a field, and so test(), when the raw value is neither absent nor
\* empty; every field has one rule and every rule a RegExp of its own
RegExpsAfter(entries, source, options, h) ==
    [r \in 1..Len(h.regexps) |->
        LET tested == {i \in 1..Len(entries) :
                          /\ entries[i].field.rules[1].arg = r
                          /\ Get(source, EnvKey(options, entries[i].key))
                                \notin {Undefined, Str(<<>>)}}
        IN IF tested = {} THEN h.regexps[r]
           ELSE LET i == CHOOSE i \in tested : TRUE IN
                [h.regexps[r] EXCEPT !.lastIndex =
                    RegExpTest(h.regexps[r], source[EnvKey(options, entries[i].key)]).lastIndex]]

\* validate(schema, source, options), which the program may call again
ValidateStrings(source, options) ==
    /\ Len(schema) > 0
    /\ call' = [op |-> "validate", source |-> source, options |-> options]
    /\ result' = [how |-> "result"] @@ validate(WithRegExps(schema, heap), source, options)
    /\ env' = result'.data
    /\ heap' = [heap EXCEPT !.regexps = RegExpsAfter(schema, source, options, heap)]
    /\ UNCHANGED <<schema, built, write, invoked, files>>

\* a program that writes down a schema of patterns and validates sources
\* against it, any number of times
NextPattern ==
    \/ DefinePatternField
    \/ \E source \in SourcesOver(schema, PlainOptions, PatternRawValues) :
          ValidateStrings(source, PlainOptions)

SpecPattern == Init /\ [][NextPattern]_vars

\* the characters of the raw values given to coerceArray, and the raw values:
\* every text of up to MaxText of these characters, and the texts of the
\* array tests
ArrayChars == {"a", "1", "9", " ", ","}

RECURSIVE TextsUpTo(_, _)
TextsUpTo(chars, n) ==
    IF n = 0 THEN {<<>>}
    ELSE LET shorter == TextsUpTo(chars, n - 1)
         IN shorter \cup {Append(t, c) : t \in shorter, c \in chars}

ArrayTexts ==
    TextsUpTo(ArrayChars, MaxText)
        \cup {<<"a", ",", " ", "b", " ", ",", "c">>, <<"a", ",", ",", "b", ",", ",", "c">>,
              <<" ", "a", " ", ";", " ", "b", " ">>}

ArraySeparators == {",", ";", " "}

\* the item schemas: e.string(), e.number(), e.number().min(5)
ItemSchemas ==
    {BaseSchema("string"), BaseSchema("number")} \cup {min(BaseSchema("number"), 5)}

\* coerceArray is given a raw value, by an array schema with a separator and
\* an item schema
InitArray ==
    /\ schema = <<>>
    /\ built = 0
    /\ call \in {[op |-> "input", value |-> v, separatorChar |-> c, itemSchema |-> s] :
                    v \in ArrayTexts, c \in ArraySeparators, s \in ItemSchemas}
    /\ result = Undefined
    /\ env = Undefined
    /\ write = "none"
    /\ invoked = <<>>
    /\ files = <<>>
    /\ heap = EmptyHeap

\* this.coerceArray(value)
CoerceArray ==
    /\ call.op = "input"
    /\ call' = [call EXCEPT !.op = "coerceArray"]
    /\ result' = coerceArray(call.value, call.separatorChar, call.itemSchema)
    /\ UNCHANGED <<schema, built, env, write, invoked, files, heap>>

NextArray == CoerceArray

SpecArray == InitArray /\ [][NextArray]_vars


\* the lines given to parseDotenv: KEY= and a value that opens and closes
\* with a double quote, a single quote or nothing, around a text of
\* backslashes, letters and quotes
EscapeChars == {"\\", "n", "t", "\""}

QuoteMarks == {<<>>, <<"\"">>, <<"'">>}

DotenvKey == <<"K", "E", "Y">>

DotenvValues ==
    {open \o inner \o close :
        open \in QuoteMarks, close \in QuoteMarks,
        inner \in TextsUpTo(EscapeChars, MaxText - 1)}

InitParse ==
    /\ schema = <<>>
    /\ built = 0
    /\ call \in {[op |-> "input", value |-> v, content |-> DotenvKey \o <<"=">> \o v] :
                    v \in DotenvValues}
    /\ result = Undefined
    /\ env = Undefined
    /\ write = "none"
    /\ invoked = <<>>
    /\ files = <<>>
    /\ heap = EmptyHeap

\* parseDotenv(content)
ParseDotenv ==
    /\ call.op = "input"
    /\ call' = [call EXCEPT !.op = "parseDotenv"]
    /\ result' = parseDotenv(call.content)
    /\ UNCHANGED <<schema, built, env, write, invoked, files, heap>>

NextParse == ParseDotenv

SpecParse == InitParse /\ [][NextParse]_vars

\* the schemas given to the composition functions: up to MaxFields entries
\* with different keys, the field schemas being told apart by their flags
ComposeKeys == {"PORT", "HOST", "DEBUG"}

ComposeFields == {BaseSchema("number"), optional(BaseSchema("number"))}

ComposeEntries == {[key |-> k, value |-> f] : k \in ComposeKeys, f \in ComposeFields}

ComposeSchemas ==
    {s \in TextsUpTo(ComposeEntries, MaxFields) :
        \A i, j \in 1..Len(s) : i # j => s[i].key # s[j].key}

\* the lists of keys given to pickSchema and omitSchema: keys of the schema,
\* a name that is no key of it, and a name every object inherits
ComposeKeyLists == TextsUpTo(ComposeKeys \cup {ExtraKey, "constructor"}, 2)

\* a composition function is given its arguments
InitCompose ==
    /\ schema = <<>>
    /\ built = 0
    /\ call \in {[op |-> "input", fn |-> "mergeSchemas", schemas |-> l] :
                    l \in TextsUpTo({s \in ComposeSchemas : Len(s) <= 1}, 3)}
            \cup {[op |-> "input", fn |-> fn, schemas |-> <<a, b>>] :
                    fn \in {"mergeSchemas", "extendSchema"},
                    a \in ComposeSchemas, b \in ComposeSchemas}
            \cup {[op |-> "input", fn |-> fn, schemas |-> <<s>>, keys |-> k] :
                    fn \in {"pickSchema", "omitSchema"},
                    s \in ComposeSchemas, k \in ComposeKeyLists}
    /\ result = Undefined
    /\ env = Undefined
    /\ write = "none"
    /\ invoked = <<>>
    /\ files = <<>>
    /\ heap = EmptyHeap

\* the call returns; call.schemas is what the call left of its arguments
Composed(fn, done) ==
    /\ call.op = "input"
    /\ call.fn = fn
    /\ call' = [call EXCEPT !.op = fn, !.schemas = done.arguments]
    /\ result' = [given |-> call.schemas, returned |-> done.returned]
    /\ UNCHANGED <<schema, built, env, write, invoked, files, heap>>

NextCompose ==
    \/ Composed("mergeSchemas", mergeSchemas(call.schemas))
    \/ Composed("extendSchema", extendSchema(call.schemas[1], call.schemas[2]))
    \/ Composed("pickSchema", pickSchema(call.schemas[1], call.keys))
    \/ Composed("omitSchema", omitSchema(call.schemas[1], call.keys))

SpecCompose == InitCompose /\ [][NextCompose]_vars

\* The init command (cli/commands/init.ts).  A path is the sequence of its
\* segments and a file system a function from resolved paths to contents;
\* the working directory is flat.

\* segments joined by "/"
RECURSIVE JoinPath(_)
JoinPath(segments) ==
    IF segments = <<>> THEN ""
    ELSE IF Len(segments) = 1 THEN segments[1]
    ELSE segments[1] \o "/" \o JoinPath(Tail(segments))

\* path.resolve(process.cwd(), p), named relative to the working directory:
\* "." segments drop out
PathResolve(p) == JoinPath(SelectSeq(p, LAMBDA segment : segment # "."))

DEFAULT_SCHEMA_PATH == <<"env.config.ts">>

DEFAULT_EXAMPLE_PATH == <<".env.example">>

SCHEMA_TEMPLATE == <<"import { e } from \"envproof\"; export const schema = { ... };">>

\* generateExample(createTemplateSchema())
TemplateExample == <<"NODE_ENV=development PORT=3000 DATABASE_URL= API_KEY=">>

\* options.schema ?? DEFAULT_SCHEMA_PATH and the like
OrElse(value, otherwise) == IF value = Undefined THEN otherwise ELSE value.v

\* writeExampleFile(schema, {output, force}) on the file system fs: an
\* existing file is kept unless force is set; writes tells whether the file
\* system accepts the write
writeExampleFile(fs, content, output, force, writes) ==
    LET target == PathResolve(output) IN
    IF target \in DOMAIN fs /\ ~force THEN [success |-> FALSE, fs |-> fs, written |-> <<>>]
    ELSE IF ~writes THEN [success |-> FALSE, fs |-> fs, written |-> <<>>]
    ELSE [success |-> TRUE, fs |-> Put(fs, target, content), written |-> <<target>>]

\* a runInit that does not look for the files before it writes
runInit_NoLookup(options, fs, io) ==
    LET schemaPath == PathResolve(OrElse(options.schema, DEFAULT_SCHEMA_PATH))
        examplePath == OrElse(options.output, DEFAULT_EXAMPLE_PATH)
    IN IF ~io.schema THEN [code |-> 1, fs |-> fs, written |-> <<>>]
       ELSE LET fs1 == Put(fs, schemaPath, SCHEMA_TEMPLATE)
                writeResult == writeExampleFile(fs1, TemplateExample, examplePath,
                                                TRUE, io.example)
            IN [code |-> IF writeResult.success THEN 0 ELSE 1,
                fs |-> writeResult.fs,
                written |-> <<schemaPath>> \o writeResult.written]

\* runInit(options) on the file system fs; io tells which of the two writes
\* the file system accepts.  The result is the exit code, the file system
\* afterwards and the paths written, in order
runInit(options, fs, io) ==
    LET schemaPath == PathResolve(OrElse(options.schema, DEFAULT_SCHEMA_PATH))
        examplePath == OrElse(options.output, DEFAULT_EXAMPLE_PATH)
        force == OrElse(options.force, FALSE)
    IN IF schemaPath \in DOMAIN fs /\ ~force
       THEN [code |-> 1, fs |-> fs, written |-> <<>>]
       ELSE IF PathResolve(examplePath) \in DOMAIN fs /\ ~force
       THEN [code |-> 1, fs |-> fs, written |-> <<>>]
       ELSE IF ~io.schema THEN [code |-> 1, fs |-> fs, written |-> <<>>]
       ELSE LET fs1 == Put(fs, schemaPath, SCHEMA_TEMPLATE)
                writeResult == writeExampleFile(fs1, TemplateExample, examplePath,
                                                TRUE, io.example)
            IN [code |-> IF writeResult.success THEN 0 ELSE 1,
                fs |-> writeResult.fs,
                written |-> <<schemaPath>> \o writeResult.written]

\* the files a working directory may hold before the command runs
InitPaths == {"env.config.ts", ".env.example", "schema.ts", "notes.txt"}

ExistingContent == <<"existing">>

\* --schema, --output and --force, each given or not
InitOptions ==
    {[schema |-> s, output |-> o, force |-> f] :
        s \in {Undefined, [kind |-> "path", v |-> <<"schema.ts">>],
               [kind |-> "path", v |-> <<".", "env.config.ts">>]},
        o \in {Undefined, [kind |-> "path", v |-> <<".", ".env.example">>],
               [kind |-> "path", v |-> <<"schema.ts">>]},
        f \in {Undefined, Bool(FALSE), Bool(TRUE)}}

\* envproof init: the call records its options and the files it found
RunInit(options, io) ==
    /\ Building
    /\ LET done == runInit(options, files, io) IN
       /\ call' = [op |-> "runInit", options |-> options, found |-> files]
       /\ result' = [code |-> done.code, written |-> done.written]
       /\ files' = done.fs
    /\ UNCHANGED <<schema, built, env, write, invoked, heap>>

\* a working directory with some files, in which envproof init runs once
NextInit ==
    \/ /\ Building
       /\ \E path \in InitPaths : WriteFile(path, ExistingContent)
    \/ /\ Building
       /\ \E options \in InitOptions, schemaWrites \in BOOLEAN, exampleWrites \in BOOLEAN :
             RunInit(options, [schema |-> schemaWrites, example |-> exampleWrites])

SpecInit == Init /\ [][NextInit]_vars

\* the arguments the model passes to the builders of a held schema
HeldDefault(proto) ==
    CASE proto = "NumberSchema" -> Num(3000)
      [] proto = "ArraySchema" -> Arr(<<Str(<<"a">>)>>)
      [] OTHER -> Str(<<"a">>)

DescriptionText == <<"d">>

LengthArgs == {1, 2}

ProtocolLists == {<<"https">>, <<"http", "https">>}

SeparatorChars == {";"}

BetweenArgs == {<<1, 3>>}

\* a builder call as the program writes it: the method and its argument
Called(method, arg) == [method |-> method, arg |-> arg]

\* const s = e.number(), e.string(), e.url(), e.array(e.string()) or
\* e.enum(values)
NewSchema(proto) ==
    /\ heap = EmptyHeap
    /\ heap' = [Construct(heap, proto) EXCEPT !.made = <<<<>>>>]
    /\ UNCHANGED <<schema, built, call, result, env, write, invoked, files>>

\* a builder call on the schema this, which the program holds; the program
\* holds the receiver and the schema the call returned from then on.  calls
\* are the calls of clone-based builders it amounts to, one per object made
Derive(this, calls, h) ==
    /\ built < MaxChain
    /\ heap' = [h EXCEPT !.made =
                   [a \in 1..Len(h.objects) |->
                       IF a <= Len(heap.objects) THEN heap.made[a]
                       ELSE heap.made[this] \o SubSeq(calls, 1, a - Len(heap.objects))]]
    /\ built' = built + 1
    /\ UNCHANGED <<schema, call, result, env, write, invoked, files>>

\* a program that builds one schema and derives further schemas from it and
\* from the derived ones, keeping them all: one disjunct per builder method
NextDerive ==
    \/ \E proto \in SchemaClasses : NewSchema(proto)
    \/ \E this \in 1..Len(heap.objects) :
          LET proto == heap.objects[this].proto
              One(method, arg, h) == Derive(this, <<Called(method, arg)>>, h)
          IN
          \/ One("optional", Undefined, BaseSchema_optional(heap, this))
          \/ One("default", HeldDefault(proto),
                 BaseSchema_default(heap, this, HeldDefault(proto)))
          \/ One("secret", Undefined, BaseSchema_secret(heap, this))
          \/ One("description", Str(DescriptionText),
                 BaseSchema_description(heap, this, DescriptionText))
          \/ One("example", Str(ExampleText), BaseSchema_example(heap, this, ExampleText))
          \/ One("custom", Undefined,
                 BaseSchema_refine(heap, this, Rule("custom", Msg("Invalid value"), 0)))
          \/ proto = "NumberSchema" /\
                One("integer", Undefined, NumberSchema_integer(heap, this))
          \/ proto = "NumberSchema" /\
                \E n \in MinArgs : One("min", Num(n), NumberSchema_min(heap, this, n))
          \/ proto = "NumberSchema" /\
                \E n \in MaxArgs : One("max", Num(n), NumberSchema_max(heap, this, n))
          \/ proto = "NumberSchema" /\
                One("min", Num(1), NumberSchema_positive(heap, this))
          \/ proto = "NumberSchema" /\
                One("min", Num(0), NumberSchema_nonNegative(heap, this))
          \/ proto = "NumberSchema" /\
                Derive(this, <<Called("integer", Undefined), Called("min", Num(1)),
                               Called("max", Num(65535))>>,
                       NumberSchema_port(heap, this))
          \/ proto = "NumberSchema" /\
                \E pair \in BetweenArgs :
                   Derive(this, <<Called("min", Num(pair[1])), Called("max", Num(pair[2]))>>,
                          NumberSchema_between(heap, this, pair[1], pair[2]))
          \/ proto = "StringSchema" /\
                \E n \in LengthArgs :
                   One("minLength", Num(n), StringSchema_minLength(heap, this, n))
          \/ proto = "ArraySchema" /\
                \E n \in LengthArgs :
                   One("minLength", Num(n), ArraySchema_minLength(heap, this, n))
          \/ proto = "ArraySchema" /\
                \E n \in LengthArgs :
                   One("maxLength", Num(n), ArraySchema_maxLength(heap, this, n))
          \/ proto = "ArraySchema" /\
                One("minLength", Num(1), ArraySchema_nonEmpty(heap, this))
          \/ proto = "UrlSchema" /\
                \E protocols \in ProtocolLists :
                   One("protocols", Arr(protocols), UrlSchema_protocols(heap, this, protocols))
          \/ proto = "ArraySchema" /\
                \E char \in SeparatorChars :
                   One("separator", Str(<<char>>), ArraySchema_separator(heap, this, char))

SpecDerive == Init /\ [][NextDerive]_vars

----------------------------------------------------------------------------
(* Properties *)

\* the raw value the last call read for schema entry i: Undefined when the
\* source has no such key
RawOf(i) == Get(call.source, EnvKey(call.options, schema[i].key))

\* the errors the last call reported under the name of schema entry i
ErrorsOf(i) ==
    {j \in 1..Len(result.errors) :
        result.errors[j].variable = ErrorVariable(call.options, schema[i].key)}

\* C1: a field that has a default value and whose source entry is absent or
\* the empty string resolves to exactly that default, with no error,
\* whatever its isOptional flag is.
C1_DefaultWins ==
    call.op # "none" =>
        \A i \in 1..Len(schema) :
            (/\ schema[i].field.defaultValue # Undefined
             /\ RawOf(i) \in {Undefined, Str(<<>>)})
            => /\ ErrorsOf(i) = {}
               /\ result.success =>
                    \E k \in {schema[i].key, EnvKey(call.options, schema[i].key)} :
                        /\ k \in DOMAIN result.data.props
                        /\ result.data.props[k] = schema[i].field.defaultValue

\* C2: with a prefix set, a field is named by the bare field name if
\* stripPrefix is true and by the full prefixed lookup key otherwise, both
\* as the data key on success and as error.variable on failure.
C2_PrefixNaming ==
    (call.op = "validate" /\ call.options.prefix # "") =>
        LET NameOf(i) == IF call.options.stripPrefix THEN schema[i].key
                         ELSE call.options.prefix \o schema[i].key
        IN /\ result.success =>
                DOMAIN result.data.props = {NameOf(i) : i \in 1..Len(schema)}
           /\ \A j \in 1..Len(result.errors) :
                \E i \in 1..Len(schema) : result.errors[j].variable = NameOf(i)

\* C3: in strict mode every source key that no field looks up and that
\* strictIgnore does not list gets exactly one error of reason unknown, so
\* the result is a failure; ignored keys get none.
C3_StrictUnknown ==
    (call.op = "validate" /\ call.options.strict) =>
        LET lookup == {EnvKey(call.options, schema[i].key) : i \in 1..Len(schema)}
            UnknownErrors(k) ==
                {j \in 1..Len(result.errors) :
                    result.errors[j].reason = "unknown" /\ result.errors[j].variable = k}
        IN \A k \in DOMAIN call.source :
              IF k \notin lookup /\ k \notin call.options.strictIgnore
              THEN Cardinality(UnknownErrors(k)) = 1 /\ ~result.success
              ELSE UnknownErrors(k) = {}

\* C4: validate reports exactly one error for each schema field whose
\* resolution fails and none for the others, in schema key order, and the
\* result is a failure if and only if there is an error.
C4_AllErrorsCollected ==
    call.op = "validate" =>
        LET Fails(i) ==
                validateVariable(EnvKey(call.options, schema[i].key), RawOf(i),
                                 schema[i].field).error # Undefined
            failing == {i \in 1..Len(schema) : Fails(i)}
        IN /\ Len(result.errors) = Cardinality(failing)
           /\ \A i \in failing : Cardinality(ErrorsOf(i)) = 1
           /\ \A i \in 1..Len(schema) : i \notin failing => ErrorsOf(i) = {}
           /\ \A i, k \in failing :
                i < k => \A j \in ErrorsOf(i), l \in ErrorsOf(k) : j < l
           /\ result.success = (Len(result.errors) = 0)

C4_Witness ==
    /\ call.op = "validate"
    /\ Len(schema) = 2
    /\ Len(result.errors) = 2
    /\ result.errors[1].variable = ErrorVariable(call.options, schema[1].key)
    /\ result.errors[2].variable = ErrorVariable(call.options, schema[2].key)

\* C5: every error produced for a secret field carries the redaction
\* placeholder as its example, never the schema's example text.
C5_SecretExampleRedacted ==
    call.op # "none" =>
        \A i \in 1..Len(schema) :
            schema[i].field.metadata.isSecret =>
                \A j \in ErrorsOf(i) : result.errors[j].example = Str(REDACTED)

\* s occurs in t as a contiguous run of characters
Contains(t, s) ==
    \E a \in 0..(Len(t) - Len(s)) : SubSeq(t, a + 1, a + Len(s)) = s

C7_CreateEnvDeepFrozen ==
    (call.op = "createEnv" /\ write # "none") =>
        write = "rejected" /\ env = result.data

\* C8: the success data of validate and validateEnv rejects mutation:
\* assigning to or adding a key fails and leaves the data unchanged.
C8_ResultDataRejectsWrites ==
    (call.op \in {"validate", "validateEnv"} /\ result.success /\ write # "none") =>
        /\ write = "rejected"
        /\ env.props = result.data.props

C10_MissingAndEmpty ==
    call.op = "validate" =>
        \A i \in 1..Len(schema) :
            LET f == schema[i].field
                Reported(reason) == \E j \in ErrorsOf(i) : result.errors[j].reason = reason
            IN /\ (~f.isOptional /\ f.defaultValue = Undefined) =>
                     /\ Reported("missing") <=> RawOf(i) = Undefined
                     /\ Reported("empty") <=> RawOf(i) = Str(<<>>)
               /\ (/\ f.isOptional
                   /\ f.defaultValue = Undefined
                   /\ RawOf(i) \in {Undefined, Str(<<>>)}) =>
                     /\ ErrorsOf(i) = {}
                     /\ result.success =>
                          /\ schema[i].key \in DOMAIN result.data.props
                          /\ result.data.props[schema[i].key] = Undefined

\* one required field is missing and another is empty, in the same call
C10_Witness ==
    /\ call.op = "validate"
    /\ \E i, k \in 1..Len(schema) :
          /\ RawOf(i) = Undefined
          /\ RawOf(k) = Str(<<>>)
          /\ \E j \in ErrorsOf(i) : result.errors[j].reason = "missing"
          /\ \E j \in ErrorsOf(k) : result.errors[j].reason = "empty"

\* schema entry i resolves without error in the last call
ResolvesOf(i) ==
    validateVariable(EnvKey(call.options, schema[i].key), RawOf(i), schema[i].field).error
        = Undefined

\* the key of result.data that holds schema entry i
DataKeysOf(i) ==
    {schema[i].key, EnvKey(call.options, schema[i].key)} \cap DOMAIN result.data.props

\* C11 as stated: when every field resolves without error, validate returns
\* success with no errors and one data key per schema field, and a data
\* value is undefined only for an optional field whose source key is absent.
C11_UndefinedOnlyAbsent ==
    (call.op = "validate" /\ \A i \in 1..Len(schema) : ResolvesOf(i)) =>
        /\ result.success
        /\ result.errors = <<>>
        /\ Cardinality(DOMAIN result.data.props) = Len(schema)
        /\ \A i \in 1..Len(schema) :
              /\ DataKeysOf(i) # {}
              /\ \A k \in DataKeysOf(i) :
                    result.data.props[k] = Undefined =>
                        schema[i].field.isOptional /\ RawOf(i) = Undefined

\* C11 amended: when every field resolves without error, validate returns
\* success with no errors and one data key per schema field, and a data
\* value is undefined only for an optional field whose source value is
\* absent or the empty string.
C11_UndefinedOnlyUnset ==
    (call.op = "validate" /\ \A i \in 1..Len(schema) : ResolvesOf(i)) =>
        /\ result.success
        /\ result.errors = <<>>
        /\ Cardinality(DOMAIN result.data.props) = Len(schema)
        /\ \A i \in 1..Len(schema) :
              /\ DataKeysOf(i) # {}
              /\ \A k \in DataKeysOf(i) :
                    result.data.props[k] = Undefined =>
                        schema[i].field.isOptional /\ RawOf(i) \in {Undefined, Str(<<>>)}

\* a successful call over two fields, one optional field resolved to
\* undefined from an empty string and one resolved to a value
C11_Witness ==
    /\ call.op = "validate"
    /\ result.success
    /\ \E i, m \in 1..Len(schema) :
          /\ schema[i].field.isOptional
          /\ RawOf(i) = Str(<<>>)
          /\ \E k \in DataKeysOf(i) : result.data.props[k] = Undefined
          /\ \E k \in DataKeysOf(m) : result.data.props[k] # Undefined

\* the last call is a call of createEnv or of validateEnv
EntryCalled == call.op \in {"createEnv", "validateEnv"}

\* membership in a list of names
Named(keys, key) == \E n \in 1..Len(keys) : keys[n] = key

\* the isOptional flag that the environment rules of the last call give to
\* schema entry i
FlagUnderRules(i) ==
    LET o == call.options
        f == schema[i].field
    IN IF /\ o.environment = "production"
          /\ Named(o.requireInProduction, schema[i].key)
          /\ f.isOptional
       THEN FALSE
       ELSE IF /\ o.environment \in {"development", "dev"}
               /\ Named(o.optionalInDevelopment, schema[i].key)
       THEN TRUE
       ELSE f.isOptional

\* the caller's schema with these flags
SchemaUnderRules ==
    [i \in 1..Len(schema) |-> [schema[i] EXCEPT !.field.isOptional = FlagUnderRules(i)]]

BaseResult ==
    validate(applyEnvironmentRules(schema, call.options), call.source, call.options)

\* C14: one call of createEnv or validateEnv invokes crossValidate at most
\* once, only when per-field validation reported no error, and passes it the
\* resolved data; when a per-field error exists, crossValidate is not
\* invoked and the errors of the result are the per-field errors.
C14_CrossValidateOnce ==
    EntryCalled =>
        /\ Len(invoked) <= 1
        /\ invoked # <<>> =>
              /\ call.options.crossValidate # Undefined
              /\ BaseResult.success
              /\ BaseResult.errors = <<>>
              /\ invoked[1] = BaseResult.data
        /\ ~BaseResult.success =>
              /\ invoked = <<>>
              /\ ~result.success
              /\ result.errors = BaseResult.errors

\* crossValidate was invoked with data that holds two resolved fields, and
\* it returned issues
C14_Witness ==
    /\ EntryCalled
    /\ Len(invoked) = 1
    /\ Cardinality(DOMAIN invoked[1].props) = 2
    /\ ~result.success

\* the issues crossValidate returned to the last call, as a list
ReturnedIssues ==
    LET returned == CallValidator(call.options.crossValidate, invoked[1]) IN
    IF returned = Undefined THEN <<>>
    ELSE IF returned.kind = "array" THEN returned.v
    ELSE <<returned>>

\* the variable an issue is reported under
IssueVariable(issue) ==
    IF issue.kind = "string" THEN "_schema"
    ELSE IF issue.variable = Undefined THEN "_schema"
    ELSE issue.variable.text

\* the message of an issue
IssueMessage(issue) == IF issue.kind = "string" THEN issue.text ELSE issue.message

\* C15: when crossValidate returns one issue or a non-empty list of issues,
\* the result is a failure with one cross_field error per issue, in the
\* order returned, each with the message of its issue and with its variable
\* ("_schema" for a plain string and for an issue without variable); when it
\* returns nothing or an empty list, the successful per-field result is the
\* result.
C15_CrossFieldErrors ==
    (EntryCalled /\ invoked # <<>>) =>
        IF ReturnedIssues = <<>>
        THEN /\ result.success
             /\ result.errors = <<>>
             /\ result.data.props = BaseResult.data.props
             /\ call.op = "validateEnv" => result.data = BaseResult.data
        ELSE /\ ~result.success
             /\ Len(result.errors) = Len(ReturnedIssues)
             /\ \A j \in 1..Len(ReturnedIssues) :
                   /\ result.errors[j].reason = "cross_field"
                   /\ result.errors[j].message = Msg(IssueMessage(ReturnedIssues[j]))
                   /\ result.errors[j].variable = IssueVariable(ReturnedIssues[j])

\* crossValidate returned a list of a named issue, an unnamed issue and a
\* plain string, and the result carries three errors
C15_Witness ==
    /\ EntryCalled
    /\ invoked # <<>>
    /\ Len(ReturnedIssues) = 3
    /\ Len(result.errors) = 3
    /\ \E j, k \in 1..3 :
          /\ ReturnedIssues[j].kind = "string"
          /\ ReturnedIssues[k].kind = "object"
          /\ result.errors[j].variable = "_schema"
          /\ result.errors[k].variable # "_schema"

\* C16: createEnv with onError "return" neither throws nor exits on a
\* validation failure: with a per-field or a cross-field error it returns
\* a result with success false and all the errors, and without an error it
\* returns a result with success true, the data and an empty error list.
C16_OnErrorReturn ==
    (call.op = "createEnv" /\ call.options.onError = "return") =>
        /\ result.how = "result"
        /\ result.success <=> result.errors = <<>>
        /\ IF ~BaseResult.success
           THEN result.errors = BaseResult.errors
           ELSE IF invoked # <<>> /\ ReturnedIssues # <<>>
           THEN result.errors = MapIssues(ReturnedIssues)
           ELSE /\ result.success
                /\ result.data.props = BaseResult.data.props

\* createEnv with onError "return" returned a failure made of a cross-field
\* error
C16_Witness ==
    /\ call.op = "createEnv"
    /\ call.options.onError = "return"
    /\ result.how = "result"
    /\ BaseResult.success
    /\ ~result.success
    /\ result.errors[1].reason = "cross_field"

\* C17: a duration field whose default was given as a duration string, and
\* whose input is absent or empty, resolves to the number of milliseconds
\* that the duration parser gives for that string, never to the string; a
\* numeric default resolves to that number.
C17_DurationDefaultParsed ==
    (EntryCalled /\ result.success) =>
        \A i \in 1..Len(schema) :
            LET f == schema[i].field IN
            (/\ f.type = "duration"
             /\ ~f.isOptional
             /\ f.defaultValue # Undefined
             /\ RawOf(i) \in {Undefined, Str(<<>>)})
            => /\ result.data.props[schema[i].key].kind = "number"
               /\ result.data.props[schema[i].key] =
                     IF f.defaultValue.kind = "string"
                     THEN parseDuration(f.defaultValue.v)
                     ELSE f.defaultValue

\* the places in the load order of the last call whose file defines key
DefiningFiles(key) ==
    LET paths == resolveDotenvPaths(call.options) IN
    {n \in 1..Len(paths) : HasOwn(loadDotenv(paths[n], files), key)}

\* the value that the last of these files gives to key
LastFileValue(key) ==
    LET paths == resolveDotenvPaths(call.options)
        last == CHOOSE n \in DefiningFiles(key) : \A m \in DefiningFiles(key) : m <= n
    IN Own(loadDotenv(paths[last], files), key)

\* every key that a dotenv file of the working directory defines
FileKeys ==
    UNION {{loadDotenv(path, files)[i].key : i \in 1..Len(loadDotenv(path, files))} :
              path \in DOMAIN files}

\* C18: with dotenv loading requested, a key that the given source holds
\* has the value it has there, and any other key has the value that the
\* last file in load order defining it gives (expanded when expansion is
\* requested); a key that neither holds has no value.
C18_DotenvLayering ==
    (EntryCalled /\ call.options.dotenv) =>
        \A key \in FileKeys \cup DOMAIN call.given \cup DOMAIN call.source :
            IF key \in DOMAIN call.given
            THEN key \in DOMAIN call.source /\ call.source[key] = call.given[key]
            ELSE IF DefiningFiles(key) # {}
            THEN /\ key \in DOMAIN call.source
                 /\ IF call.options.dotenvExpand
                    THEN LET expanded ==
                                 expandDotenvVars(
                                     loadDotenvFiles(resolveDotenvPaths(call.options), files),
                                     call.given)
                         IN HasOwn(expanded, key) /\ call.source[key] = Own(expanded, key)
                    ELSE call.source[key] = LastFileValue(key)
            ELSE key \notin DOMAIN call.source

\* a reference: the text ${name}
Reference(name) == <<"$", "{", name, "}">>

\* the names of ExpandKeys that a reference of the model's inputs can name
ReferenceNames == {"A", "B"}

\* C19: expandDotenvVars returns, for every batch, a mapping with exactly
\* the keys of the batch; when every value of the batch is a reference to a
\* key of the batch, every reference closes a cycle and every value expands
\* to the empty string; and a reference to a key of the batch whose value is
\* plain text expands to that text, whatever the context holds for the name.
C19_ExpandCycleSafe ==
    call.op = "expandDotenvVars" =>
        LET batch == call.batch IN
        /\ {result[i].key : i \in 1..Len(result)} = {batch[i].key : i \in 1..Len(batch)}
        /\ Len(result) = Len(batch)
        /\ (\A i \in 1..Len(batch) :
               \E name \in ReferenceNames :
                  batch[i].value = Reference(name) /\ HasOwn(batch, name))
           => \A i \in 1..Len(result) : result[i].value = <<>>
        /\ \A i \in 1..Len(batch) :
              \A name \in ReferenceNames :
                 (/\ batch[i].value = Reference(name)
                  /\ HasOwn(batch, name)
                  /\ Own(batch, name) = <<"x">>
                  /\ HasOwn(result, batch[i].key))
                 => Own(result, batch[i].key) = <<"x">>

\* C20: a builder call returns a new schema object and leaves every schema
\* the program already holds as it was: the receiver, and the schemas it
\* was derived from or that were derived from it, keep their isOptional,
\* defaultValue, metadata, rules list and variant fields (number
\* integer/min/max, URL protocols, array separator and coerce binding).
C20_BuildersLeaveReceiver ==
    [][heap' # heap /\ heap # EmptyHeap =>
          /\ Len(heap'.objects) > Len(heap.objects)
          /\ heap'.objects[Last(heap')].def \notin {heap.objects[a].def : a \in 1..Len(heap.objects)}
          /\ \A this \in 1..Len(heap.objects) : View(heap', this) = View(heap, this)]_vars

\* three schemas are held: the first, a second one that shares the rules
\* array of the first, and a third one with one more rule than the first
\* and a variant field or a metadata entry of its own
C20_Witness ==
    /\ Len(heap.objects) = 3
    /\ \E a \in 2..3 : DefOf(heap, a).rules = DefOf(heap, 1).rules
    /\ \E b \in 2..3 :
          /\ Len(View(heap, b).rules) > Len(View(heap, 1).rules)
          /\ View(heap, b).fields # View(heap, 1).fields
    /\ View(heap, 1).rules = <<>>

\* the builder calls that attach a rule, by the name of the rule
RuleMethods == {"custom", "integer", "min", "max", "minLength", "maxLength", "protocols"}

\* the calls of a chain that attach a rule, in call order
RuleCalls(chain) == SelectSeq(chain, LAMBDA c : c.method \in RuleMethods)

HasCall(chain, method) == \E n \in 1..Len(chain) : chain[n].method = method

\* the argument of the last call of method in a chain
LastArg(chain, method) ==
    chain[CHOOSE n \in 1..Len(chain) :
             /\ chain[n].method = method
             /\ \A m \in (n + 1)..Len(chain) : chain[m].method # method].arg

\* the value a chain leaves in an attribute: the argument of the last call
\* that sets it, or what the constructor put there
Carried(chain, method, initial) ==
    IF HasCall(chain, method) THEN LastArg(chain, method) ELSE initial

\* C21: after any chain of builder calls the schema's rules list is the
\* rules added along the chain, in call order, none dropped or reordered,
\* and the schema carries the metadata and variant attributes set along the
\* chain: secret flag, description, example, default, enum values, URL
\* protocols, number bounds and integer flag, array item schema and
\* separator (for an attribute set twice, the value set last).
C21_ChainKeepsRulesAndAttributes ==
    \A a \in 1..Len(heap.objects) :
        LET chain == heap.made[a]
            added == RuleCalls(chain)
            seen == View(heap, a)
            proto == heap.objects[a].proto
        IN /\ Len(seen.rules) = Len(added)
           /\ \A n \in 1..Len(added) :
                 /\ seen.rules[n].name = added[n].method
                 /\ added[n].method \in {"min", "max", "minLength", "maxLength"} =>
                       seen.rules[n].arg = added[n].arg.v
           /\ seen.metadata.isSecret = HasCall(chain, "secret")
           /\ seen.metadata.description = Carried(chain, "description", Undefined)
           /\ seen.metadata.example = Carried(chain, "example", Undefined)
           /\ seen.defaultValue = Carried(chain, "default", Undefined)
           /\ proto = "EnumSchema" =>
                 seen.enumValues = Arr(EnumValues) /\ seen.fields.values = Arr(EnumValues)
           /\ proto = "UrlSchema" =>
                 seen.fields.allowedProtocols = Carried(chain, "protocols", Undefined)
           /\ proto = "NumberSchema" =>
                 /\ seen.fields.min = Carried(chain, "min", Undefined)
                 /\ seen.fields.max = Carried(chain, "max", Undefined)
                 /\ seen.fields.isInteger = Bool(HasCall(chain, "integer"))
           /\ proto = "ArraySchema" =>
                 /\ seen.fields.itemSchema = Str(<<"string">>)
                 /\ seen.fields.separatorChar = Carried(chain, "separator", Str(<<",">>))
                 /\ seen.coerce = CoerceOf(proto, a)

\* a schema made by .secret() and then a call that attaches a rule: it has
\* the secret flag and the rule
C21_Witness ==
    \E a \in 1..Len(heap.objects) :
        /\ Len(heap.made[a]) = 2
        /\ heap.made[a][1].method = "secret"
        /\ heap.made[a][2].method \in RuleMethods
        /\ View(heap, a).metadata.isSecret
        /\ Len(View(heap, a).rules) = 1

\* C22: validate keeps no hidden state: a call with the same schema, source
\* and options as the call before it returns a structurally equal result,
\* and it writes neither the schema nor the source.
C22_ValidateDeterministic ==
    [][(call.op = "validate" /\ call'.op = "validate"
           /\ call'.source = call.source /\ call'.options = call.options)
          => result' = result /\ schema' = schema]_vars

\* the positions that bound the pieces of a raw value: the separators, and
\* one position before the text and one after it
Bounds(value, separator) ==
    {i \in 1..Len(value) : value[i] = separator} \cup {0, Len(value) + 1}

\* the trimmed piece that starts after the bounding position b
PieceAfter(value, separator, b) ==
    LET next == CHOOSE n \in Bounds(value, separator) :
                    n > b /\ \A m \in Bounds(value, separator) : m > b => n <= m
    IN Trim(SubSeq(value, b + 1, next - 1))

\* the bounding positions followed by a piece that is not empty once trimmed
KeptBounds(value, separator) ==
    {b \in Bounds(value, separator) \ {Len(value) + 1} :
        PieceAfter(value, separator, b) # <<>>}

\* the k-th of these pieces, in the order of the text
KeptPiece(value, separator, k) ==
    LET kept == KeptBounds(value, separator)
        b == CHOOSE c \in kept : Cardinality({d \in kept : d < c}) = k - 1
    IN PieceAfter(value, separator, b)

\* C23: coerceArray gives the pieces of the raw value between separators,
\* trimmed, without the empty ones and in their order, each coerced by the
\* item schema; no element of a string array is empty; when a piece fails
\* its coercion or a rule of the item schema, the coercion fails with the
\* error of the first such piece and its index among the kept pieces.
C23_ArrayCoercion ==
    call.op = "coerceArray" =>
        LET value == call.value
            separator == call.separatorChar
            item == call.itemSchema
            count == Cardinality(KeptBounds(value, separator))
            piece(k) == KeptPiece(value, separator, k)
            coerced(k) == Coerce(item, piece(k))
            failing(k) == IF coerced(k).success
                          THEN FirstFailingRule(item.rules, coerced(k).value, 1)
                          ELSE 0
            bad == {k \in 1..count : ~coerced(k).success \/ failing(k) # 0}
        IN IF bad = {}
           THEN /\ result.success
                /\ result.value.kind = "array"
                /\ result.value.v = [k \in 1..count |-> coerced(k).value]
                /\ item.type = "string" =>
                      \A k \in 1..Len(result.value.v) : result.value.v[k].v # <<>>
           ELSE LET first == CHOOSE k \in bad : \A j \in bad : k <= j IN
                /\ ~result.success
                /\ result.error.text = "Invalid item at index %: %"
                /\ result.error.arg = NumToString(first - 1)
                /\ result.error.inner =
                      IF ~coerced(first).success THEN coerced(first).error
                      ELSE item.rules[failing(first)].message

\* "a,,b,,c" split on "," as an array of strings: ["a", "b", "c"]
C23_Witness ==
    /\ call.op = "coerceArray"
    /\ call.value = <<"a", ",", ",", "b", ",", ",", "c">>
    /\ call.separatorChar = ","
    /\ call.itemSchema.type = "string"
    /\ result = CoerceOk(Arr(<<Str(<<"a">>), Str(<<"b">>), Str(<<"c">>)>>))

\* the keys of an object
KeysOf(object) == {object[i].key : i \in 1..Len(object)}

\* an object has every key once
IsMapping(object) == \A i, j \in 1..Len(object) : i # j => object[i].key # object[j].key

\* C24: mergeSchemas returns a new mapping whose keys are the union of the
\* keys of its arguments and whose value for a key is the field schema of
\* the last argument that has the key; extendSchema(base, additions) returns
\* the mapping mergeSchemas(base, additions) returns; neither changes an
\* argument.
C24_MergeAndExtend ==
    /\ call.op = "mergeSchemas" =>
          LET given == result.given
              having(key) == {n \in 1..Len(given) : HasOwn(given[n], key)}
              last(key) == CHOOSE n \in having(key) : \A m \in having(key) : m <= n
          IN /\ IsMapping(result.returned)
             /\ KeysOf(result.returned) = UNION {KeysOf(given[n]) : n \in 1..Len(given)}
             /\ \A key \in KeysOf(result.returned) :
                   Own(result.returned, key) = Own(given[last(key)], key)
             /\ call.schemas = given
    /\ call.op = "extendSchema" =>
          /\ result.returned = mergeSchemas(result.given).returned
          /\ call.schemas = result.given

\* three schemas were merged, two of which have a key in common with
\* different field schemas, and the later one's is returned
C24_Witness ==
    /\ call.op = "mergeSchemas"
    /\ Len(result.given) = 3
    /\ \E key \in KeysOf(result.returned) :
          /\ HasOwn(result.given[1], key)
          /\ HasOwn(result.given[3], key)
          /\ Own(result.given[1], key) # Own(result.given[3], key)
          /\ Own(result.returned, key) = Own(result.given[3], key)
    /\ Cardinality(KeysOf(result.returned)) = 2

\* the keys listed in a call of pickSchema or omitSchema
Listed(keys) == {keys[n] : n \in 1..Len(keys)}

\* C25: pickSchema(schema, keys) returns exactly the entries of schema whose
\* key is listed, ignoring listed keys that are no key of the schema, and
\* omitSchema(schema, keys) exactly the other entries, with the field
\* schemas of the schema; neither changes the schema.  (The two results of
\* one schema and one list then have disjoint key sets whose union is the
\* schema's key set.)
C25_PickAndOmit ==
    call.op \in {"pickSchema", "omitSchema"} =>
        LET given == result.given[1]
            wanted == IF call.op = "pickSchema"
                      THEN KeysOf(given) \cap Listed(call.keys)
                      ELSE KeysOf(given) \ Listed(call.keys)
        IN /\ IsMapping(result.returned)
           /\ KeysOf(result.returned) = wanted
           /\ \A key \in wanted : Own(result.returned, key) = Own(given, key)
           /\ call.schemas = result.given

\* another raw value for a secret field: no number and no JSON text
OtherRaw == <<"x">>

\* the source of the last call with the raw value of schema entry i replaced
SourceWith(i, raw) ==
    LET key == EnvKey(call.options, schema[i].key) IN
    [k \in DOMAIN call.source \cup {key} |-> IF k = key THEN raw ELSE call.source[k]]

\* the step at which validateVariable rejects a raw value of a field: 0 for
\* the coercion, n for the n-th rule
FailingStep(s, raw) ==
    LET coercionResult == Coerce(s, raw) IN
    IF ~coercionResult.success THEN 0
    ELSE FirstFailingRule(s.rules, coercionResult.value, 1)

\* C26: the errors validate reports for a secret field do not depend on the
\* raw input: a validation that differs only in the raw value of the secret
\* field and fails at the same step (the coercion, or the same rule)
\* reports the same error objects for the field.
C26_SecretErrorsHideInput ==
    call.op = "validate" =>
        \A i \in 1..Len(schema) :
            LET s == schema[i].field
                other == validate(schema, SourceWith(i, OtherRaw), call.options)
                named(errors) ==
                    {errors[j] : j \in {n \in 1..Len(errors) :
                        errors[n].variable = ErrorVariable(call.options, schema[i].key)}}
            IN (/\ s.metadata.isSecret
                /\ RawOf(i) \notin {Undefined, Str(<<>>)}
                /\ ErrorsOf(i) # {}
                /\ named(other.errors) # {}
                /\ FailingStep(s, RawOf(i).v) = FailingStep(s, OtherRaw))
               => named(result.errors) = named(other.errors)

\* schema entry i resolves by its default in the last call: the field is
\* not optional, holds a default, and its input is absent or empty
DefaultUsed(i) ==
    /\ ~schema[i].field.isOptional
    /\ schema[i].field.defaultValue # Undefined
    /\ RawOf(i) \in {Undefined, Str(<<>>)}

\* C27: a field whose input is absent or empty and whose default is used
\* resolves to the default exactly as stored, with no error, whether or not
\* the default satisfies the field's rules: the default is neither coerced
\* nor checked.
C27_DefaultReturnedAsStored ==
    call.op = "validate" =>
        \A i \in 1..Len(schema) :
            DefaultUsed(i) =>
                /\ ErrorsOf(i) = {}
                /\ result.success =>
                     /\ OutputKey(call.options, schema[i].key) \in DOMAIN result.data.props
                     /\ result.data.props[OutputKey(call.options, schema[i].key)]
                            = schema[i].field.defaultValue

\* a successful validation resolved a field by a default that breaks one of
\* the field's rules
C27_Witness ==
    /\ call.op = "validate"
    /\ result.success
    /\ \E i \in 1..Len(schema) :
          /\ DefaultUsed(i)
          /\ FirstFailingRule(schema[i].field.rules, schema[i].field.defaultValue, 1) # 0
          /\ result.data.props[OutputKey(call.options, schema[i].key)]
                = schema[i].field.defaultValue

\* the arguments of the rules of one name in a rules list
RuleArgs(rules, name) == {rules[n].arg : n \in {m \in 1..Len(rules) : rules[m].name = name}}

\* the bound a set of min (or max) rules enforces together: the greatest
\* lower bound, the least upper bound; <<>> when there is no such rule
Enforced(args, greatest) ==
    IF args = {} THEN <<>>
    ELSE NumToString(CHOOSE n \in args :
                        \A m \in args : IF greatest THEN m <= n ELSE n <= m)

\* C28: the type description of a number schema reflects its rules: it says
\* "integer" exactly when an integer rule is attached, and the lower and
\* upper bound it shows are the bounds the attached min and max rules
\* enforce on a value (none shown when no such rule is attached).
C28_DescriptionReflectsRules ==
    \A a \in 1..Len(heap.objects) :
        heap.objects[a].proto = "NumberSchema" =>
            LET rules == View(heap, a).rules
                shown == NumberSchema_getTypeDescription(heap, a)
            IN /\ shown.head = "integer" <=> RuleArgs(rules, "integer") # {}
               /\ shown.lo = Enforced(RuleArgs(rules, "min"), TRUE)
               /\ shown.hi = Enforced(RuleArgs(rules, "max"), FALSE)

\* the characters the escape sequences of a double-quoted value stand for
Escaped(c) ==
    CASE c = "n" -> "LF" [] c = "r" -> "CR" [] c = "t" -> "TAB" [] OTHER -> c

\* a text with every escape sequence consumed once, from left to right
RECURSIVE UnescapedOnce(_)
UnescapedOnce(s) ==
    IF Len(s) < 2 THEN s
    ELSE IF s[1] = "\\" /\ s[2] \in {"n", "r", "t", "\\", "\""}
         THEN <<Escaped(s[2])>> \o UnescapedOnce(SubSeq(s, 3, Len(s)))
    ELSE <<s[1]>> \o UnescapedOnce(Tail(s))

\* C29: parseDotenv gives a double-quoted value with its escape sequences
\* (backslash n, r, t, backslash, double quote) each consumed once from left
\* to right, so that backslash, backslash, n is a backslash followed by n;
\* a single-quoted value is the text between the quotes and an unquoted
\* value is the text as written, neither being unescaped.
C29_EscapesConsumedOnce ==
    call.op = "parseDotenv" =>
        LET value == call.value
            quoted(mark) == StartsWith(value, mark) /\ EndsWith(value, mark)
            inner == SubSeq(value, 2, Len(value) - 1)
            expected == IF quoted("\"") THEN UnescapedOnce(inner)
                        ELSE IF quoted("'") THEN inner
                        ELSE value
        IN result = <<[key |-> KeyOf(DotenvKey), value |-> expected]>>

\* the last call was runInit without force
InitWithoutForce ==
    /\ call.op = "runInit"
    /\ OrElse(call.options.force, FALSE) = FALSE

\* the two files of the last runInit call
SchemaFile == PathResolve(OrElse(call.options.schema, DEFAULT_SCHEMA_PATH))

ExampleFile == PathResolve(OrElse(call.options.output, DEFAULT_EXAMPLE_PATH))

\* C30: runInit without force never overwrites an existing file: every file
\* it found is left as it was; if the schema file or the example file
\* exists it returns 1 and writes nothing; and it returns 0 only after it
\* has written the schema file and then the example file, which are then in
\* place.
C30_InitKeepsExistingFiles ==
    InitWithoutForce =>
        /\ \A p \in DOMAIN call.found :
              p \in DOMAIN files /\ files[p] = call.found[p]
        /\ (SchemaFile \in DOMAIN call.found \/ ExampleFile \in DOMAIN call.found) =>
              /\ result.code = 1
              /\ result.written = <<>>
              /\ files = call.found
        /\ result.code = 0 =>
              /\ result.written = <<SchemaFile, ExampleFile>>
              /\ {SchemaFile, ExampleFile} \subseteq DOMAIN files
              /\ files[ExampleFile] = TemplateExample
              /\ SchemaFile # ExampleFile => files[SchemaFile] = SCHEMA_TEMPLATE

\* runInit without force found one of its two files, returned 1 and left
\* the file as it was
C30_Witness ==
    /\ InitWithoutForce
    /\ ExampleFile \in DOMAIN call.found
    /\ SchemaFile \notin DOMAIN call.found
    /\ result.code = 1
    /\ files = call.found

====
